---- MODULE Spec2Model ----
(***************************************************************************)
(* Inkwell: the word-level diff / merge engine of the editor.              *)
(*                                                                         *)
(* Part I   texts, the tokenizer, computeWordDiff, groupDiffsIntoChanges   *)
(*          (renderer.js 1380-1459, the same code as lib/diff.js).         *)
(* Part II  the renderer's diff session: showDiff, per-unit and global     *)
(*          resolution, finalization, threads, persistence                 *)
(*          (renderer.js 456-484, 798-1016, 1121-1929, 2012-2022).         *)
(*                                                                         *)
(* A text is a sequence of one-character strings.  HTML / the ProseMirror  *)
(* document is a sequence of nodes: plain text runs and diff spans.        *)
(***************************************************************************)
EXTENDS Integers, Sequences, FiniteSets, TLC

(***************************************************************************)
(* Bounds of the model.                                                    *)
(***************************************************************************)
\* longest text drawn as an input of computeWordDiff in SpecDiff
MaxLen == 3

\* characters of the texts drawn in SpecDiff: two letters and a blank
Alphabet == {"a", "b", " "}

Min(a, b) == IF a < b THEN a ELSE b
Max(a, b) == IF a > b THEN a ELSE b

\* /\s/ on the characters the model uses
IsSpace(c) == c \in {" ", "\n"}

RECURSIVE TextsUpTo(_)
TextsUpTo(n) ==
  IF n = 0 THEN {<<>>}
  ELSE LET S == TextsUpTo(n - 1)
       IN  S \cup {Append(s, c) : s \in {t \in S : Len(t) = n - 1}, c \in Alphabet}

RECURSIVE Concat(_)
\* Array.prototype.join('') over a sequence of texts
Concat(ts) == IF ts = <<>> THEN <<>> ELSE Head(ts) \o Concat(Tail(ts))

(***************************************************************************)
(* Part I.  computeWordDiff                                                *)
(***************************************************************************)

\* length of the maximal leading run of one class (\S+ or \s+)
\* a run that stops after one character
RunEndOne(text) == 1

RunEnd(text) ==
  CHOOSE n \in 1..Len(text) :
    /\ \A i \in 1..n : IsSpace(text[i]) = IsSpace(text[1])
    /\ (n = Len(text) \/ IsSpace(text[n + 1]) # IsSpace(text[1]))

RECURSIVE tokenizeDropSpace(_)
\* a tokenizer that matches /\S+/g only: the whitespace runs are lost
tokenizeDropSpace(text) ==
  IF text = <<>> THEN <<>>
  ELSE LET n == RunEnd(text)
           rest == tokenizeDropSpace(SubSeq(text, n + 1, Len(text)))
       IN  IF IsSpace(text[1]) THEN rest ELSE <<SubSeq(text, 1, n)>> \o rest

RECURSIVE tokenize(_)
\* text.match(/\S+|\s+/g) || []
tokenize(text) ==
  IF text = <<>> THEN <<>>
  ELSE LET n == RunEnd(text)
       IN  <<SubSeq(text, 1, n)>> \o tokenize(SubSeq(text, n + 1, Len(text)))

\* String.fromCharCode: the code unit is the argument modulo 2^16
FromCharCode(n) == n % 65536

\* first code getWordChar allocates
FirstCharCode == 256

InSeq(x, s) == \E i \in 1..Len(s) : s[i] = x

RECURSIVE wordMapOf(_, _)
\* the keys of wordMap in insertion order after getWordChar ran over `tokens`
wordMapOf(tokens, map) ==
  IF tokens = <<>> THEN map
  ELSE wordMapOf(Tail(tokens),
                 IF InSeq(Head(tokens), map) THEN map ELSE Append(map, Head(tokens)))

\* the char getWordChar stores for the k-th distinct word it meets:
\* String.fromCharCode(charCode++) with charCode starting at 0x100
CharOf(k) == FromCharCode(FirstCharCode + k - 1)

\* a getWordChar that never advances charCode
getWordCharSameCode(map, word) == FromCharCode(FirstCharCode)

\* wordMap.get(word) once word is in the map
getWordChar(map, word) == CharOf(CHOOSE i \in 1..Len(map) : map[i] = word)

\* reverseMap.get(char): the last word stored under that char, undefined if none
ReverseHas(map, char) ==
  \E i \in 1..Len(map) : FromCharCode(FirstCharCode + i - 1) = char
reverseMapGet(map, char) ==
  LET I == {i \in 1..Len(map) : FromCharCode(FirstCharCode + i - 1) = char}
  IN  map[CHOOSE i \in I : \A j \in I : j <= i]

(***************************************************************************)
(* diff-match-patch on the coded strings (sequences of codes).  The        *)
(* library is a dependency of the repository; it is modelled by its steps: *)
(* the equality shortcut, common prefix and suffix, an edit script of the  *)
(* middle along a longest common subsequence, diff_cleanupMerge, and the   *)
(* equality elimination of diff_cleanupSemantic.                           *)
(***************************************************************************)
DELETE == -1
EQUAL == 0
INSERT == 1

CommonPrefixLen(x, y) ==
  CHOOSE n \in 0..Min(Len(x), Len(y)) :
    /\ \A i \in 1..n : x[i] = y[i]
    /\ (n = Min(Len(x), Len(y)) \/ x[n + 1] # y[n + 1])

CommonSuffixLen(x, y) ==
  CHOOSE n \in 0..Min(Len(x), Len(y)) :
    /\ \A i \in 1..n : x[Len(x) - i + 1] = y[Len(y) - i + 1]
    /\ (n = Min(Len(x), Len(y)) \/ x[Len(x) - n] # y[Len(y) - n])

RECURSIVE LcsLen(_, _)
LcsLen(x, y) ==
  IF x = <<>> \/ y = <<>> THEN 0
  ELSE IF x[1] = y[1] THEN 1 + LcsLen(Tail(x), Tail(y))
  ELSE Max(LcsLen(Tail(x), y), LcsLen(x, Tail(y)))

RECURSIVE EditScript(_, _)
\* one entry per code along a longest common subsequence
EditScript(x, y) ==
  IF x = <<>> /\ y = <<>> THEN <<>>
  ELSE IF x = <<>> THEN <<[op |-> INSERT, chars |-> <<y[1]>>]>> \o EditScript(x, Tail(y))
  ELSE IF y = <<>> THEN <<[op |-> DELETE, chars |-> <<x[1]>>]>> \o EditScript(Tail(x), y)
  ELSE IF x[1] = y[1]
    THEN <<[op |-> EQUAL, chars |-> <<x[1]>>]>> \o EditScript(Tail(x), Tail(y))
  ELSE IF LcsLen(Tail(x), y) >= LcsLen(x, Tail(y))
    THEN <<[op |-> DELETE, chars |-> <<x[1]>>]>> \o EditScript(Tail(x), y)
  ELSE <<[op |-> INSERT, chars |-> <<y[1]>>]>> \o EditScript(x, Tail(y))

\* the edits collected since the last equality, deletion first
Flush(del, ins) ==
  (IF del = <<>> THEN <<>> ELSE <<[op |-> DELETE, chars |-> del]>>)
  \o (IF ins = <<>> THEN <<>> ELSE <<[op |-> INSERT, chars |-> ins]>>)

\* an equality joins the equality that ends `out`, if there is one
PushEqual(out, chars) ==
  IF chars = <<>> THEN out
  ELSE IF out # <<>> /\ out[Len(out)].op = EQUAL
  THEN [out EXCEPT ![Len(out)].chars = @ \o chars]
  ELSE Append(out, [op |-> EQUAL, chars |-> chars])

\* a deletion and an insertion give their common prefix to the equality before
\* them and their common suffix (carry) to the equality after them
FlushInto(out, del, ins) ==
  IF del = <<>> \/ ins = <<>>
  THEN [out |-> out \o Flush(del, ins), carry |-> <<>>]
  ELSE LET cp == CommonPrefixLen(del, ins)
           d1 == SubSeq(del, cp + 1, Len(del))
           i1 == SubSeq(ins, cp + 1, Len(ins))
           cs == CommonSuffixLen(d1, i1)
       IN  [out |-> PushEqual(out, SubSeq(del, 1, cp))
                    \o Flush(SubSeq(d1, 1, Len(d1) - cs), SubSeq(i1, 1, Len(i1) - cs)),
            carry |-> SubSeq(d1, Len(d1) - cs + 1, Len(d1))]

RECURSIVE CleanupMergeFrom(_, _, _, _)
CleanupMergeFrom(diffs, out, del, ins) ==
  IF diffs = <<>>
  THEN LET f == FlushInto(out, del, ins) IN PushEqual(f.out, f.carry)
  ELSE LET d == Head(diffs) IN
    IF d.op = DELETE THEN CleanupMergeFrom(Tail(diffs), out, del \o d.chars, ins)
    ELSE IF d.op = INSERT THEN CleanupMergeFrom(Tail(diffs), out, del, ins \o d.chars)
    ELSE IF d.chars = <<>> THEN CleanupMergeFrom(Tail(diffs), out, del, ins)
    ELSE LET f == FlushInto(out, del, ins)
         IN  CleanupMergeFrom(Tail(diffs), PushEqual(f.out, f.carry \o d.chars), <<>>, <<>>)

\* dmp.diff_cleanupMerge: deletions before insertions, equal neighbours merged,
\* common prefix and suffix of a deletion / insertion pair factored out
diff_cleanupMerge(diffs) == CleanupMergeFrom(diffs, <<>>, <<>>, <<>>)

\* dmp.diff_main(text1, text2)
diff_main(text1, text2) ==
  IF text1 = text2
  THEN (IF text1 # <<>> THEN <<[op |-> EQUAL, chars |-> text1]>> ELSE <<>>)
  ELSE LET p == CommonPrefixLen(text1, text2)
           r1 == SubSeq(text1, p + 1, Len(text1))
           r2 == SubSeq(text2, p + 1, Len(text2))
           s == CommonSuffixLen(r1, r2)
           m1 == SubSeq(r1, 1, Len(r1) - s)
           m2 == SubSeq(r2, 1, Len(r2) - s)
       IN  diff_cleanupMerge(
             <<[op |-> EQUAL, chars |-> SubSeq(text1, 1, p)]>>
             \o EditScript(m1, m2)
             \o <<[op |-> EQUAL, chars |-> SubSeq(r1, Len(r1) - s + 1, Len(r1))]>>)

\* the size of the larger edit among the entries just before / after index i
EditLen(diffs, i, op) ==
  IF i >= 1 /\ i <= Len(diffs) /\ diffs[i].op = op THEN Len(diffs[i].chars) ELSE 0
EditsBefore(diffs, i) ==
  Max(EditLen(diffs, i - 1, DELETE)
        + (IF EditLen(diffs, i - 1, INSERT) > 0 THEN EditLen(diffs, i - 2, DELETE) ELSE 0),
      EditLen(diffs, i - 1, INSERT))
EditsAfter(diffs, i) ==
  Max(EditLen(diffs, i + 1, DELETE),
      EditLen(diffs, i + 1, INSERT)
        + (IF EditLen(diffs, i + 1, DELETE) > 0 THEN EditLen(diffs, i + 2, INSERT) ELSE 0))

\* an equality no longer than the edits on both of its sides
Eliminable(diffs, i) ==
  /\ diffs[i].op = EQUAL
  /\ Len(diffs[i].chars) <= EditsBefore(diffs, i)
  /\ Len(diffs[i].chars) <= EditsAfter(diffs, i)

RECURSIVE EliminateEqualities(_)
\* such equalities become a deletion and an insertion, then diff_cleanupMerge
EliminateEqualities(diffs) ==
  LET I == {i \in 1..Len(diffs) : Eliminable(diffs, i)}
  IN  IF I = {} THEN diffs
      ELSE LET i == CHOOSE i \in I : \A j \in I : i <= j
               split == SubSeq(diffs, 1, i - 1)
                        \o <<[op |-> DELETE, chars |-> diffs[i].chars],
                             [op |-> INSERT, chars |-> diffs[i].chars]>>
                        \o SubSeq(diffs, i + 1, Len(diffs))
           IN  EliminateEqualities(diff_cleanupMerge(split))

\* dmp.diff_commonOverlap_: the longest suffix of x that is a prefix of y
CommonOverlap(x, y) ==
  LET N == {n \in 0..Min(Len(x), Len(y)) :
              SubSeq(x, Len(x) - n + 1, Len(x)) = SubSeq(y, 1, n)}
  IN  CHOOSE n \in N : \A m \in N : m <= n

RECURSIVE ExtractOverlaps(_, _)
\* a deletion followed by an insertion that overlap by at least half of either
ExtractOverlaps(diffs, i) ==
  IF i > Len(diffs) THEN <<>>
  ELSE IF i < Len(diffs) /\ diffs[i].op = DELETE /\ diffs[i + 1].op = INSERT
  THEN LET deletion == diffs[i].chars
           insertion == diffs[i + 1].chars
           o1 == CommonOverlap(deletion, insertion)
           o2 == CommonOverlap(insertion, deletion)
       IN  IF o1 >= o2 /\ (2 * o1 >= Len(deletion) \/ 2 * o1 >= Len(insertion))
           THEN <<[op |-> DELETE, chars |-> SubSeq(deletion, 1, Len(deletion) - o1)],
                  [op |-> EQUAL, chars |-> SubSeq(insertion, 1, o1)],
                  [op |-> INSERT, chars |-> SubSeq(insertion, o1 + 1, Len(insertion))]>>
                \o ExtractOverlaps(diffs, i + 2)
           ELSE IF o1 < o2 /\ (2 * o2 >= Len(deletion) \/ 2 * o2 >= Len(insertion))
           THEN <<[op |-> INSERT, chars |-> SubSeq(insertion, 1, Len(insertion) - o2)],
                  [op |-> EQUAL, chars |-> SubSeq(deletion, 1, o2)],
                  [op |-> DELETE, chars |-> SubSeq(deletion, o2 + 1, Len(deletion))]>>
                \o ExtractOverlaps(diffs, i + 2)
           ELSE <<diffs[i], diffs[i + 1]>> \o ExtractOverlaps(diffs, i + 2)
  ELSE <<diffs[i]>> \o ExtractOverlaps(diffs, i + 1)

\* dmp.diff_cleanupSemantic(diffs).  The sliding of an edit between two equal
\* neighbours (diff_cleanupSemanticLossless) moves no text between the sides.
diff_cleanupSemantic(diffs) == ExtractOverlaps(EliminateEqualities(diffs), 1)

RECURSIVE ExpandChars(_, _, _)
\* renderer.js 1409-1417: one part per code, a code with no word is skipped
ExpandChars(map, op, chars) ==
  IF chars = <<>> THEN <<>>
  ELSE (IF ReverseHas(map, Head(chars))
        THEN <<[type |-> op, text |-> reverseMapGet(map, Head(chars))]>>
        ELSE <<>>)
       \o ExpandChars(map, op, Tail(chars))

RECURSIVE ExpandDiffsLosingOp(_, _)
\* an expansion that gives every part the type of an equality
ExpandDiffsLosingOp(map, charDiffs) ==
  IF charDiffs = <<>> THEN <<>>
  ELSE ExpandChars(map, EQUAL, Head(charDiffs).chars)
       \o ExpandDiffsLosingOp(map, Tail(charDiffs))

RECURSIVE ExpandDiffs(_, _)
ExpandDiffs(map, charDiffs) ==
  IF charDiffs = <<>> THEN <<>>
  ELSE ExpandChars(map, Head(charDiffs).op, Head(charDiffs).chars)
       \o ExpandDiffs(map, Tail(charDiffs))

RECURSIVE MergeKeepsAll(_, _)
\* a merge that appends every item as a part of its own
MergeKeepsAll(result, merged) ==
  IF result = <<>> THEN merged
  ELSE MergeKeepsAll(Tail(result), Append(merged, Head(result)))

RECURSIVE MergeNoJoin(_, _)
\* a merge that drops the text of a merged item instead of appending it
MergeNoJoin(result, merged) ==
  IF result = <<>> THEN merged
  ELSE LET item == Head(result) IN
    IF Len(merged) > 0 /\ merged[Len(merged)].type = item.type
    THEN MergeNoJoin(Tail(result), merged)
    ELSE MergeNoJoin(Tail(result), Append(merged, item))

RECURSIVE MergeParts(_, _)
\* renderer.js 1419-1426: consecutive items of one type become one part
MergeParts(result, merged) ==
  IF result = <<>> THEN merged
  ELSE LET item == Head(result) IN
    IF Len(merged) > 0 /\ merged[Len(merged)].type = item.type
    THEN MergeParts(Tail(result), [merged EXCEPT ![Len(merged)].text = @ \o item.text])
    ELSE MergeParts(Tail(result), Append(merged, item))

\* computeWordDiff(original, proposed)
computeWordDiff(original, proposed) ==
  LET originalTokens == tokenize(original)
      proposedTokens == tokenize(proposed)
      wordMap == wordMapOf(originalTokens \o proposedTokens, <<>>)
      originalChars == [i \in 1..Len(originalTokens) |-> getWordChar(wordMap, originalTokens[i])]
      proposedChars == [i \in 1..Len(proposedTokens) |-> getWordChar(wordMap, proposedTokens[i])]
      charDiffs == diff_cleanupSemantic(diff_main(originalChars, proposedChars))
  IN  MergeParts(ExpandDiffs(wordMap, charDiffs), <<>>)

\* a change unit; id is <<>> for null and <<n>> for the number n; the flags
\* resolved / accepted / rejected are absent (falsy) until a resolution sets them
Unit(id, type, parts) ==
  [id |-> id, type |-> type, parts |-> parts,
   resolved |-> FALSE, accepted |-> FALSE, rejected |-> FALSE]

RECURSIVE GroupFromNoPair(_, _, _, _)
\* a grouping loop that never looks at the part after a deletion
GroupFromNoPair(diffs, i, changeId, changes) ==
  IF ~(i <= Len(diffs)) THEN changes
  ELSE IF diffs[i].type = EQUAL
  THEN GroupFromNoPair(diffs, i + 1, changeId,
                       Append(changes, Unit(<<>>, "equal", <<diffs[i]>>)))
  ELSE GroupFromNoPair(diffs, i + 1, changeId + 1,
                       Append(changes, Unit(<<changeId>>, "change", <<diffs[i]>>)))

RECURSIVE GroupFromDropsInsert(_, _, _, _)
\* a grouping loop that steps over the insertion after a deletion without keeping it
GroupFromDropsInsert(diffs, i, changeId, changes) ==
  IF ~(i <= Len(diffs)) THEN changes
  ELSE IF diffs[i].type = EQUAL
  THEN GroupFromDropsInsert(diffs, i + 1, changeId,
                            Append(changes, Unit(<<>>, "equal", <<diffs[i]>>)))
  ELSE IF diffs[i].type = DELETE /\ i + 1 <= Len(diffs) /\ diffs[i + 1].type = INSERT
  THEN GroupFromDropsInsert(diffs, i + 2, changeId + 1,
                            Append(changes, Unit(<<changeId>>, "change", <<diffs[i]>>)))
  ELSE GroupFromDropsInsert(diffs, i + 1, changeId + 1,
                            Append(changes, Unit(<<changeId>>, "change", <<diffs[i]>>)))

RECURSIVE GroupFrom(_, _, _, _)
\* the while loop of groupDiffsIntoChanges from index i with counter changeId
GroupFrom(diffs, i, changeId, changes) ==
  IF ~(i <= Len(diffs)) THEN changes
  ELSE LET diff == diffs[i] IN
    IF diff.type = EQUAL
    THEN GroupFrom(diffs, i + 1, changeId, Append(changes, Unit(<<>>, "equal", <<diff>>)))
    ELSE IF diff.type = DELETE
    THEN IF i + 1 <= Len(diffs) /\ diffs[i + 1].type = INSERT
         THEN GroupFrom(diffs, i + 2, changeId + 1,
                Append(changes, Unit(<<changeId>>, "change", <<diff, diffs[i + 1]>>)))
         ELSE GroupFrom(diffs, i + 1, changeId + 1,
                Append(changes, Unit(<<changeId>>, "change", <<diff>>)))
    ELSE GroupFrom(diffs, i + 1, changeId + 1,
           Append(changes, Unit(<<changeId>>, "change", <<diff>>)))

\* a grouping whose counter starts at 1
groupDiffsIntoChangesFromOne(diffs) == GroupFrom(diffs, 1, 1, <<>>)

\* groupDiffsIntoChanges(diffs)
groupDiffsIntoChanges(diffs) == GroupFrom(diffs, 1, 0, <<>>)

\* the text of the parts of the given types, in order
PartsText(parts, types) ==
  Concat([i \in 1..Len(parts) |->
            IF parts[i].type \in types THEN parts[i].text ELSE <<>>])


(***************************************************************************)
(* Part II.  The renderer's diff session.                                  *)
(***************************************************************************)
\* thread ids handed out over a run (createThread)
MaxThreads == 2
\* diff sessions shown over a run (showDiff)
MaxSessions == 1
\* AI requests awaiting their response at one time
MaxInFlight == 1
\* characters the user types over a run
MaxTyped == 1
\* selections the user makes over a run
MaxSelects == 1
\* times a file is opened over a run
MaxOpens == 2

\* original .. pc: the inputs and results of the functions of Part I.
\* markup: the strings of the diff marker functions (lib/diffMarkers.js).
\* heap: the state objects handed to the functions of lib/diffState.js, and what the
\* last call returned.  response: a raw response and what parseClaudeResponse made of it.
\* tokens: the result of the tokenizer on a drawn text.
\* charCode: the counter of getWordChar.  folder: a folder listing and what the
\* read-context-folder handler returned for it.
\* state, editor: the renderer's state object and the editor document.
\* requests: the AI requests awaiting their response.  disk: the chat history file.
\* nThreads: thread ids handed out.  used: what the run has spent of its bounds.
\* last: the handler that ran last, the change id it was called with and the
\* session it discarded, if any.
VARIABLES
  original, proposed, merged, changes, pc, markup, heap, response, tokens,
  charCode, folder,
  state, editor, requests, disk, nThreads, used, last

libVars == <<heap, response, tokens, charCode, folder>>
pureVars == <<original, proposed, merged, changes, pc, markup, heap, response, tokens,
              charCode, folder>>
appVars == <<state, editor, requests, disk, nThreads, used, last>>
vars == <<original, proposed, merged, changes, pc, markup, heap, response, tokens,
          charCode, folder,
          state, editor, requests, disk, nThreads, used, last>>

(***************************************************************************)
(* HTML and the editor document: a sequence of nodes.  cls is "text" for   *)
(* plain content and "diff-delete" / "diff-insert" for a span carrying     *)
(* data-change-id = id.                                                    *)
(***************************************************************************)
TextNode(t) == [cls |-> "text", id |-> <<>>, text |-> t]
Span(cls, id, t) == [cls |-> cls, id |-> id, text |-> t]

RECURSIVE NormalizeFrom(_, _)
NormalizeFrom(nodes, out) ==
  IF nodes = <<>> THEN out
  ELSE LET n == Head(nodes) IN
    IF n.text = <<>> THEN NormalizeFrom(Tail(nodes), out)
    ELSE IF out # <<>> /\ out[Len(out)].cls = n.cls /\ out[Len(out)].id = n.id
    THEN NormalizeFrom(Tail(nodes), [out EXCEPT ![Len(out)].text = @ \o n.text])
    ELSE NormalizeFrom(Tail(nodes), Append(out, n))

\* editor.commands.setContent(html): neighbours with the same marks are one run
setContent(html) == NormalizeFrom(html, <<>>)

\* the text a document shows, spans included
EditorText(ed) == Concat([i \in 1..Len(ed) |-> ed[i].text])

\* marked.parse(markdown) on text without markup
marked_parse(markdown) == IF markdown = <<>> THEN <<>> ELSE <<TextNode(markdown)>>

Reverse(s) == [i \in 1..Len(s) |-> s[Len(s) - i + 1]]

\* length of the leading whitespace run of s
SpaceRun(s) ==
  CHOOSE n \in 0..Len(s) :
    /\ \A i \in 1..n : IsSpace(s[i])
    /\ (n = Len(s) \/ ~IsSpace(s[n + 1]))

IsRule(s, i, marks) ==
  /\ i + 2 <= Len(s)
  /\ s[i] \in marks /\ s[i + 1] = s[i] /\ s[i + 2] = s[i]

RECURSIVE StripLeadingRules(_, _)
\* s.replace(/^(\s*(rule)\s*\n)+/, '') for rule among the triples of `marks`
StripLeadingRules(s, marks) ==
  LET w == SpaceRun(s) IN
  IF ~IsRule(s, w + 1, marks) THEN s
  ELSE LET rest == SubSeq(s, w + 4, Len(s))
           v == SpaceRun(rest)
           N == {k \in 1..v : rest[k] = "\n"}
       IN  IF N = {} THEN s
           ELSE LET k == CHOOSE k \in N : \A j \in N : j <= k
                IN  StripLeadingRules(SubSeq(rest, k + 1, Len(rest)), marks)

\* s.replace(/(\n\s*(rule)\s*)+$/, '')
StripTrailingRules(s, marks) == Reverse(StripLeadingRules(Reverse(s), marks))

RECURSIVE SplitLines(_, _)
SplitLines(s, cur) ==
  IF s = <<>> THEN <<cur>>
  ELSE IF Head(s) = "\n" THEN <<cur>> \o SplitLines(Tail(s), <<>>)
  ELSE SplitLines(Tail(s), Append(cur, Head(s)))

RECURSIVE JoinLines(_)
JoinLines(ls) ==
  IF Len(ls) = 1 THEN ls[1] ELSE ls[1] \o <<"\n">> \o JoinLines(Tail(ls))

\* .replace(/^---$/gm, '***').replace(/^___$/gm, '***')
RewriteRules(s) ==
  LET ls == SplitLines(s, <<>>)
  IN  JoinLines([i \in 1..Len(ls) |->
        IF ls[i] \in {<<"-", "-", "-">>, <<"_", "_", "_">>}
        THEN <<"*", "*", "*">> ELSE ls[i]])

\* the cleaning of setContentFromMarkdown (renderer.js 457-461)
cleanMarkdown(markdown) ==
  RewriteRules(StripTrailingRules(StripLeadingRules(markdown, {"-"}), {"-"}))

\* getMarkdownContent(): turndown of the editor's HTML, rules at the ends removed
getMarkdownContent(ed) ==
  StripTrailingRules(StripLeadingRules(EditorText(ed), {"*", "-", "_"}), {"*", "-", "_"})

\* String.prototype.indexOf
indexOf(s, sub) ==
  LET I == {i \in 0..(Len(s) - Len(sub)) : SubSeq(s, i + 1, i + Len(sub)) = sub}
  IN  IF I = {} THEN -1 ELSE CHOOSE i \in I : \A j \in I : i <= j


(***************************************************************************)
(* The renderer's state.  `state` holds the fields of the state object     *)
(* (renderer.js 157-187) the engine reads and writes; null is <<>> and a   *)
(* present value v is <<v>>.  sid and docBefore are history fields: the    *)
(* number of the session and the document text showDiff replaced.          *)
(* A handler is an operator from world to world, a world being             *)
(* [state, editor, disk, nThreads, fin]: fin records the session a handler *)
(* discarded and how.                                                      *)
(***************************************************************************)
InitState ==
  [currentFilePath |-> <<>>, threads |-> <<>>, activeThreadId |-> <<>>,
   cleanDocumentMarkdown |-> <<>>,
   originalContent |-> <<>>, originalHtml |-> <<>>, originalFullContent |-> <<>>,
   proposedContent |-> <<>>, proposedHtml |-> <<>>, hasPendingDiff |-> FALSE,
   selectedText |-> <<>>, selectionStart |-> 0, selectionEnd |-> 0,
   isSelectionEdit |-> FALSE, diffChanges |-> <<>>,
   sid |-> 0, docBefore |-> <<>>]

World(st, ed, dk, n) == [state |-> st, editor |-> ed, disk |-> dk, nThreads |-> n, fin |-> <<>>]

\* index in state.threads of getActiveThread(), 0 for undefined
ActiveIdx(st) ==
  IF st.activeThreadId = <<>> THEN 0
  ELSE LET I == {i \in 1..Len(st.threads) : st.threads[i].id = st.activeThreadId[1]}
       IN  IF I = {} THEN 0 ELSE CHOOSE i \in I : \A j \in I : i <= j

\* the record saveCurrentDiffToThread stores (renderer.js 896-906)
SessionOf(st) ==
  [originalContent |-> st.originalContent, originalHtml |-> st.originalHtml,
   originalFullContent |-> st.originalFullContent,
   proposedContent |-> st.proposedContent, proposedHtml |-> st.proposedHtml,
   diffChanges |-> st.diffChanges, isSelectionEdit |-> st.isSelectionEdit,
   selectionStart |-> st.selectionStart, selectionEnd |-> st.selectionEnd,
   sid |-> st.sid, docBefore |-> st.docBefore]

\* createThread() pushed and made active (renderer.js 603-605, 817-819, 985-987)
pushNewThread(w) ==
  [w EXCEPT !.nThreads = @ + 1,
            !.state.threads = Append(@, [id |-> w.nThreads + 1, diffState |-> <<>>]),
            !.state.activeThreadId = <<w.nThreads + 1>>]

saveChatData(w) ==
  IF w.state.currentFilePath = <<>> THEN w
  ELSE [w EXCEPT !.disk = <<[threads |-> w.state.threads,
                             activeThreadId |-> w.state.activeThreadId]>>]

\* addChatMessage(role, content, skipSave): the thread and persistence effects
addChatMessage(w, skipSave) ==
  LET w1 == IF ActiveIdx(w.state) = 0 /\ ~skipSave THEN pushNewThread(w) ELSE w
  IN  IF ~skipSave /\ w1.state.currentFilePath # <<>> THEN saveChatData(w1) ELSE w1

\* the session fields as clearDiff and restoreDiffFromThread (918-925) reset them
ResetDiffFields(st) ==
  [st EXCEPT !.hasPendingDiff = FALSE, !.originalContent = <<>>, !.originalHtml = <<>>,
             !.originalFullContent = <<>>, !.proposedContent = <<>>,
             !.proposedHtml = <<>>, !.isSelectionEdit = FALSE, !.diffChanges = <<>>,
             !.sid = 0, !.docBefore = <<>>]

clearDiff(w) == [w EXCEPT !.state = ResetDiffFields(w.state)]

setContentFromMarkdown(w, markdown, storeAsClean) ==
  LET clean == cleanMarkdown(markdown)
  IN  [w EXCEPT !.state.cleanDocumentMarkdown = IF storeAsClean THEN clean ELSE @,
                !.editor = setContent(marked_parse(clean))]

\* saveCurrentDiffToThread with the flags of the units reset
saveCurrentDiffToThreadLosingFlags(w) ==
  LET i == ActiveIdx(w.state) IN
  IF i = 0 THEN w
  ELSE [w EXCEPT !.state.threads[i].diffState =
          IF w.state.hasPendingDiff
          THEN <<[SessionOf(w.state) EXCEPT !.diffChanges =
                    [k \in 1..Len(w.state.diffChanges) |->
                       [w.state.diffChanges[k] EXCEPT !.resolved = FALSE,
                          !.accepted = FALSE, !.rejected = FALSE]]]>>
          ELSE <<>>]

saveCurrentDiffToThread(w) ==
  LET i == ActiveIdx(w.state) IN
  IF i = 0 THEN w
  ELSE [w EXCEPT !.state.threads[i].diffState =
          IF w.state.hasPendingDiff THEN <<SessionOf(w.state)>> ELSE <<>>]

RECURSIVE UnitsHtml(_)
\* the spans buildRichDiffHtml and parseMarkdownWithDiffMarkers produce
UnitsHtml(units) ==
  IF units = <<>> THEN <<>>
  ELSE LET change == Head(units) IN
    (IF change.type = "equal" THEN marked_parse(change.parts[1].text)
     ELSE [k \in 1..Len(change.parts) |->
             IF change.parts[k].type = DELETE
             THEN Span("diff-delete", change.id, change.parts[k].text)
             ELSE Span("diff-insert", change.id, change.parts[k].text)])
    \o UnitsHtml(Tail(units))

buildRichDiffHtml(units) == UnitsHtml(units)

\* finalHtml of showDiff (1483-1506) and renderDiffInEditor (1540-1556)
embedDiff(diffHtml, isSelection, fullMarkdown, originalText) ==
  IF isSelection /\ fullMarkdown # <<>>
  THEN LET selectionIndex == indexOf(fullMarkdown, originalText) IN
       IF selectionIndex # -1
       THEN marked_parse(SubSeq(fullMarkdown, 1, selectionIndex))
            \o diffHtml
            \o marked_parse(SubSeq(fullMarkdown, selectionIndex + Len(originalText) + 1,
                                   Len(fullMarkdown)))
       ELSE diffHtml
  ELSE diffHtml

renderDiffInEditor(w) ==
  IF ~w.state.hasPendingDiff \/ Len(w.state.diffChanges) = 0 THEN w
  ELSE [w EXCEPT !.editor =
          setContent(embedDiff(buildRichDiffHtml(w.state.diffChanges),
                               w.state.isSelectionEdit, w.state.originalFullContent,
                               w.state.originalContent))]

restoreDiffFromThread(w) ==
  LET i == ActiveIdx(w.state) IN
  IF i = 0 THEN w
  ELSE LET st == ResetDiffFields(w.state)
           ds == st.threads[i].diffState
       IN  IF ds # <<>>
           THEN renderDiffInEditor(
                  [w EXCEPT !.state =
                     [st EXCEPT !.originalContent = ds[1].originalContent,
                                !.originalHtml = ds[1].originalHtml,
                                !.originalFullContent = ds[1].originalFullContent,
                                !.proposedContent = ds[1].proposedContent,
                                !.proposedHtml = ds[1].proposedHtml,
                                !.diffChanges = ds[1].diffChanges,
                                !.isSelectionEdit = ds[1].isSelectionEdit,
                                !.selectionStart = ds[1].selectionStart,
                                !.selectionEnd = ds[1].selectionEnd,
                                !.sid = ds[1].sid, !.docBefore = ds[1].docBefore,
                                !.hasPendingDiff = TRUE]])
           ELSE IF st.cleanDocumentMarkdown # <<>>
           THEN setContentFromMarkdown([w EXCEPT !.state = st],
                                       st.cleanDocumentMarkdown, FALSE)
           ELSE [w EXCEPT !.state = st]

switchToThread(w, threadId) ==
  IF w.state.activeThreadId = <<threadId>> THEN w
  ELSE LET w1 == saveCurrentDiffToThread(w)
           w2 == [w1 EXCEPT !.state.activeThreadId = <<threadId>>]
       IN  saveChatData(restoreDiffFromThread(w2))

createNewThread(w) ==
  saveChatData(clearDiff(pushNewThread(saveCurrentDiffToThread(w))))

showDiff(w, originalText, proposedText, isSelection, sid) ==
  LET units == groupDiffsIntoChanges(computeWordDiff(originalText, proposedText))
      st == [w.state EXCEPT !.hasPendingDiff = TRUE,
                            !.originalContent = originalText,
                            !.proposedContent = proposedText,
                            !.isSelectionEdit = isSelection,
                            !.proposedHtml = marked_parse(proposedText),
                            !.diffChanges = units,
                            !.sid = sid,
                            !.docBefore = getMarkdownContent(w.editor)]
      finalHtml == embedDiff(buildRichDiffHtml(units), isSelection,
                             st.originalFullContent, originalText)
  IN  saveChatData(saveCurrentDiffToThread(
        [w EXCEPT !.state = st, !.editor = setContent(finalHtml)]))


\* index of state.diffChanges.find(c => c.id === changeId), 0 for undefined
FindChange(units, changeId) ==
  LET I == {i \in 1..Len(units) : units[i].id = <<changeId>>}
  IN  IF I = {} THEN 0 ELSE CHOOSE i \in I : \A j \in I : i <= j

\* a marking that resolves every unit from the i-th on
MarkUnitAndRest(w, i, flag) ==
  [w EXCEPT !.state.diffChanges =
     [k \in 1..Len(@) |->
        IF k >= i /\ @[k].type = "change"
        THEN [@[k] EXCEPT !.resolved = TRUE,
                          !.accepted = IF flag = "accepted" THEN TRUE ELSE @,
                          !.rejected = IF flag = "rejected" THEN TRUE ELSE @]
        ELSE @[k]]]

\* the unit objects of state.diffChanges are the objects of the array stored on
\* the active thread (the copies at 902 and 938 are shallow): a flag set on
\* one is set on the other
MarkUnit(w, i, flag) ==
  LET mark(units) == [units EXCEPT ![i].resolved = TRUE,
                                   ![i].accepted = IF flag = "accepted" THEN TRUE ELSE @,
                                   ![i].rejected = IF flag = "rejected" THEN TRUE ELSE @]
      t == ActiveIdx(w.state)
      w1 == [w EXCEPT !.state.diffChanges = mark(@)]
  IN  IF t # 0 /\ w.state.threads[t].diffState # <<>>
           /\ Len(w.state.threads[t].diffState[1].diffChanges) >= i
      THEN [w1 EXCEPT !.state.threads[t].diffState[1].diffChanges = mark(@)]
      ELSE w1

\* the DOM edits of acceptSingleChange (1732-1744) / rejectSingleChange (1766-1778):
\* the spans of class `removed` with the id go, those of class `kept` are unwrapped
ResolveSpans(ed, changeId, removed, kept) ==
  LET left == SelectSeq(ed, LAMBDA n : ~(n.cls = removed /\ n.id = <<changeId>>))
  IN  [k \in 1..Len(left) |->
         IF left[k].cls = kept /\ left[k].id = <<changeId>>
         THEN TextNode(left[k].text) ELSE left[k]]

\* syncDomToEditor(): the DOM goes back into the editor, hasPendingDiff is kept
syncDomToEditor(w, html) == [w EXCEPT !.editor = setContent(html)]

finalizeChanges(w) ==
  LET w1 == [w EXCEPT !.editor = setContent(w.editor),
                      !.fin = <<[how |-> "finalize", s |-> SessionOf(w.state)]>>]
  IN  addChatMessage(clearDiff(w1), FALSE)

Unresolved(units) ==
  {i \in 1..Len(units) : units[i].type = "change" /\ ~units[i].resolved}

\* checkAllChangesResolved that finalizes while one unit is left
checkAllChangesResolvedEarly(w) ==
  IF Cardinality(Unresolved(w.state.diffChanges)) <= 1 THEN finalizeChanges(w) ELSE w

checkAllChangesResolved(w) ==
  IF Unresolved(w.state.diffChanges) = {} THEN finalizeChanges(w) ELSE w

\* acceptSingleChange without the test of change.resolved
acceptSingleChangeUnguarded(w, changeId) ==
  LET i == FindChange(w.state.diffChanges, changeId) IN
  IF i = 0 THEN w
  ELSE checkAllChangesResolved(
         syncDomToEditor(MarkUnit(w, i, "accepted"),
                         ResolveSpans(w.editor, changeId, "diff-delete", "diff-insert")))

\* acceptSingleChange that takes the first unit for an id no unit carries
acceptSingleChangeAnyId(w, changeId) ==
  LET i == IF FindChange(w.state.diffChanges, changeId) = 0 /\ w.state.diffChanges # <<>>
           THEN 1 ELSE FindChange(w.state.diffChanges, changeId) IN
  IF i = 0 \/ w.state.diffChanges[i].resolved THEN w
  ELSE checkAllChangesResolved(
         syncDomToEditor(MarkUnit(w, i, "accepted"),
                         ResolveSpans(w.editor, changeId, "diff-delete", "diff-insert")))

acceptSingleChange(w, changeId) ==
  LET i == FindChange(w.state.diffChanges, changeId) IN
  IF i = 0 \/ w.state.diffChanges[i].resolved THEN w
  ELSE checkAllChangesResolved(
         syncDomToEditor(MarkUnit(w, i, "accepted"),
                         ResolveSpans(w.editor, changeId, "diff-delete", "diff-insert")))

\* rejectSingleChange without the test of change.resolved
rejectSingleChangeUnguarded(w, changeId) ==
  LET i == FindChange(w.state.diffChanges, changeId) IN
  IF i = 0 THEN w
  ELSE checkAllChangesResolved(
         syncDomToEditor(MarkUnit(w, i, "rejected"),
                         ResolveSpans(w.editor, changeId, "diff-insert", "diff-delete")))

rejectSingleChange(w, changeId) ==
  LET i == FindChange(w.state.diffChanges, changeId) IN
  IF i = 0 \/ w.state.diffChanges[i].resolved THEN w
  ELSE checkAllChangesResolved(
         syncDomToEditor(MarkUnit(w, i, "rejected"),
                         ResolveSpans(w.editor, changeId, "diff-insert", "diff-delete")))

\* thread.diffState = null on the active thread (1873-1874, 1904-1905)
clearThreadDiffState(w) ==
  LET t == ActiveIdx(w.state) IN
  IF t = 0 THEN w ELSE [w EXCEPT !.state.threads[t].diffState = <<>>]

\* acceptChanges that takes the proposed text for the document also for a selection
acceptChangesWholesale(w) ==
  IF ~w.state.hasPendingDiff THEN w
  ELSE LET w1 == [setContentFromMarkdown(w, w.state.proposedContent, TRUE)
                    EXCEPT !.fin = <<[how |-> "accept", s |-> SessionOf(w.state)]>>]
       IN  addChatMessage(clearThreadDiffState(clearDiff(w1)), FALSE)

\* acceptChanges that gives up when the selection is not found in the document
acceptChangesGivesUp(w) ==
  IF ~w.state.hasPendingDiff THEN w
  ELSE LET st == w.state
           idx == indexOf(st.originalFullContent, st.originalContent)
           newContent ==
             IF st.isSelectionEdit /\ idx # -1
             THEN SubSeq(st.originalFullContent, 1, idx)
                  \o st.proposedContent
                  \o SubSeq(st.originalFullContent, idx + Len(st.originalContent) + 1,
                            Len(st.originalFullContent))
             ELSE IF st.isSelectionEdit THEN st.originalFullContent
             ELSE st.proposedContent
           w1 == [setContentFromMarkdown(w, newContent, TRUE)
                    EXCEPT !.fin = <<[how |-> "accept", s |-> SessionOf(st)]>>]
       IN  addChatMessage(clearThreadDiffState(clearDiff(w1)), FALSE)

acceptChanges(w) ==
  IF ~w.state.hasPendingDiff THEN w
  ELSE LET st == w.state
           idx == indexOf(st.originalFullContent, st.originalContent)
           newContent ==
             IF st.isSelectionEdit /\ idx # -1
             THEN SubSeq(st.originalFullContent, 1, idx)
                  \o st.proposedContent
                  \o SubSeq(st.originalFullContent, idx + Len(st.originalContent) + 1,
                            Len(st.originalFullContent))
             ELSE st.proposedContent
           w1 == [setContentFromMarkdown(w, newContent, TRUE)
                    EXCEPT !.fin = <<[how |-> "accept", s |-> SessionOf(st)]>>]
       IN  addChatMessage(clearThreadDiffState(clearDiff(w1)), FALSE)

rejectChanges(w) ==
  IF ~w.state.hasPendingDiff THEN w
  ELSE LET st == w.state
           restored ==
             IF st.cleanDocumentMarkdown # <<>> THEN st.cleanDocumentMarkdown
             ELSE IF st.isSelectionEdit THEN st.originalFullContent
             ELSE st.originalContent
           w1 == [setContentFromMarkdown(w, restored, FALSE)
                    EXCEPT !.fin = <<[how |-> "reject", s |-> SessionOf(st)]>>]
       IN  addChatMessage(clearThreadDiffState(clearDiff(w1)), FALSE)

newDocument(w) ==
  LET w1 == clearDiff([w EXCEPT !.editor = <<>>,
                                !.state.currentFilePath = <<>>,
                                !.state.cleanDocumentMarkdown = <<>>])
  IN  [w1 EXCEPT !.state.threads = <<>>, !.state.activeThreadId = <<>>]

loadChatHistory(w) ==
  LET data == IF w.disk = <<>> THEN [threads |-> <<>>, activeThreadId |-> <<>>]
              ELSE w.disk[1]
      w1 == [w EXCEPT !.state.threads = data.threads,
                      !.state.activeThreadId = data.activeThreadId]
      w2 == IF Len(w1.state.threads) = 0 THEN pushNewThread(w1) ELSE w1
      w3 == IF ActiveIdx(w2.state) = 0
            THEN [w2 EXCEPT !.state.activeThreadId = <<w2.state.threads[1].id>>]
            ELSE w2
  IN  restoreDiffFromThread(w3)

\* the onFileOpened callback (2012-2022)
fileOpened(w, content) ==
  loadChatHistory(clearDiff(
    setContentFromMarkdown([w EXCEPT !.state.currentFilePath = <<"doc">>], content, TRUE)))

\* handleThreadSubmit up to the await of the fetch (1334-1345, 1127-1131)
submitRequest(w) ==
  LET w1 == IF w.state.hasPendingDiff THEN rejectChanges(w) ELSE w
      w2 == addChatMessage(w1, FALSE)
      md == getMarkdownContent(w2.editor)
  IN  [w2 EXCEPT !.state.originalFullContent = md,
                 !.state.originalHtml = w2.editor]

\* the request sendToClaudeAPI is waiting on; thread is a history field
RequestOf(w) ==
  LET md == getMarkdownContent(w.editor)
  IN  [originalText |-> IF w.state.selectedText # <<>> THEN w.state.selectedText ELSE md,
       isSelection |-> w.state.selectedText # <<>>,
       thread |-> w.state.activeThreadId]

\* handleThreadSubmit after the await, for a response that is an edit (1348-1369)
receiveEdit(w, result, content, sid) ==
  LET text == StripTrailingRules(StripLeadingRules(content, {"-"}), {"-"})
  IN  IF text # result.originalText
      THEN saveChatData(showDiff(w, result.originalText, text, result.isSelection, sid))
      ELSE addChatMessage(w, FALSE)


(***************************************************************************)
(* The inputs of a run.                                                    *)
(***************************************************************************)
\* contents of the files the user opens
FileContents ==
  { <<"a", " ", "b", " ", "c">>,
    <<"-", "-", "-", "\n", "a", " ", "b", " ", "c">> }

\* the text the model answers a request with: a word for a selection, and for the
\* document a text that replaces the first and the last word of the file, or one
\* that drops its first word and adds a last one
Proposals(request) ==
  IF request.isSelection THEN { <<"x">> }
  ELSE { <<"x", " ", "b", " ", "y">>, <<"b", " ", "c", " ", "y">> }

\* the character the user types
TypedChar == "z"

\* change ids a click may carry: those of the units and one no unit has
ChangeIds == 0..2

\* the words of a text the user selects: the second one, or the first of a text of
\* one word
Selectable(text) ==
  LET W == {k \in 1..Len(tokenize(text)) : ~IsSpace(tokenize(text)[k][1])}
  IN  {k \in W : Cardinality({j \in W : j < k}) = Min(1, Cardinality(W) - 1)}

\* offset of token k in the text
TokenOffset(text, k) == Len(Concat(SubSeq(tokenize(text), 1, k - 1)))

(***************************************************************************)
(* The state machine of the renderer: one action per handler.              *)
(***************************************************************************)
Here == World(state, editor, disk, nThreads)

\* the variables take the world a handler called with argument arg leaves
Took(w, op, arg) ==
  \E v \in {w} :
    /\ v.nThreads <= MaxThreads
    /\ state' = v.state
    /\ editor' = v.editor
    /\ disk' = v.disk
    /\ nThreads' = v.nThreads
    /\ last' = [op |-> op, fin |-> v.fin, arg |-> arg]
    /\ UNCHANGED pureVars

Becomes(w, op) == Took(w, op, <<>>)

Spend(what, bound) ==
  /\ used[what] < bound
  /\ used' = [used EXCEPT ![what] = @ + 1]

AppInit ==
  /\ state = InitState
  /\ editor = <<>>
  /\ requests = <<>>
  /\ disk = <<>>
  /\ nThreads = 0
  /\ used = [sessions |-> 0, typed |-> 0, selects |-> 0, opens |-> 0, submits |-> 0]
  /\ last = [op |-> "init", fin |-> <<>>, arg |-> <<>>]

FileOpen ==
  \E content \in FileContents :
    /\ Spend("opens", MaxOpens)
    /\ Becomes(fileOpened(Here, content), "fileOpened")
    /\ UNCHANGED requests

NewDocument ==
  /\ Becomes(newDocument(Here), "newDocument")
  /\ UNCHANGED <<requests, used>>

\* the user types at the end of the document while no diff is shown (onUpdate, 257-265)
TypeChar ==
  /\ ~state.hasPendingDiff
  /\ requests = <<>>
  /\ Spend("typed", MaxTyped)
  /\ Becomes([Here EXCEPT !.editor = setContent(editor \o <<TextNode(<<TypedChar>>)>>)],
             "type")
  /\ UNCHANGED requests

\* onSelectionUpdate with from # to: the user selects a word (266-277)
SelectWord ==
  \E k \in Selectable(EditorText(editor)) :
    /\ ~state.hasPendingDiff
    /\ requests = <<>>
    /\ Spend("selects", MaxSelects)
    /\ LET text == EditorText(editor)
           from == TokenOffset(text, k) + 1
       IN  Becomes([Here EXCEPT !.state.selectedText = tokenize(text)[k],
                                !.state.selectionStart = from,
                                !.state.selectionEnd = from + Len(tokenize(text)[k])],
                   "select")
    /\ UNCHANGED requests

\* onSelectionUpdate with from = to
Deselect ==
  /\ state.selectedText # <<>>
  /\ Becomes([Here EXCEPT !.state.selectedText = <<>>,
                          !.state.selectionStart = 0,
                          !.state.selectionEnd = 0],
             "deselect")
  /\ UNCHANGED <<requests, used>>

\* handleThreadSubmit with a message, up to the await
Submit ==
  /\ Len(requests) < MaxInFlight
  /\ LET w == submitRequest(Here)
     IN  /\ Becomes(w, "handleThreadSubmit")
         /\ requests' = Append(requests, RequestOf(w))
  /\ UNCHANGED used

Without(seq, i) == SubSeq(seq, 1, i - 1) \o SubSeq(seq, i + 1, Len(seq))

\* the response to request i is an edit
ResponseEdit ==
  \E i \in 1..Len(requests) :
    \E content \in Proposals(requests[i]) :
      /\ Spend("sessions", MaxSessions)
      /\ Becomes(receiveEdit(Here, requests[i], content, used.sessions + 1), "response")
      /\ requests' = Without(requests, i)

\* the response to request i is conversational, or the request fails (1321-1325, 1374)
ResponseChat ==
  \E i \in 1..Len(requests) :
    /\ Becomes(addChatMessage(Here, FALSE), "reply")
    /\ requests' = Without(requests, i)
    /\ UNCHANGED used

\* addInlineButtons (1622-1690) puts an accept and a reject button on every change
\* id that has a span in the editor; clearDiff removes the buttons
HasButton(changeId) ==
  /\ state.hasPendingDiff
  /\ \E k \in 1..Len(editor) : editor[k].id = <<changeId>>

\* a click event that arrives after an earlier click was handled: its button may be
\* gone and its id may be one no unit carries any more
LateClick == last.op \in {"acceptSingleChange", "rejectSingleChange"}

\* a click on the accept button of a change
AcceptSingle ==
  \E changeId \in ChangeIds :
    /\ HasButton(changeId) \/ LateClick
    /\ Took(acceptSingleChange(Here, changeId), "acceptSingleChange", <<changeId>>)
    /\ UNCHANGED <<requests, used>>

\* a click on the reject button of a change
RejectSingle ==
  \E changeId \in ChangeIds :
    /\ HasButton(changeId) \/ LateClick
    /\ Took(rejectSingleChange(Here, changeId), "rejectSingleChange", <<changeId>>)
    /\ UNCHANGED <<requests, used>>

\* the return at 1849
AcceptAll ==
  /\ state.hasPendingDiff
  /\ Becomes(acceptChanges(Here), "acceptChanges")
  /\ UNCHANGED <<requests, used>>

\* the return at 1886
RejectAll ==
  /\ state.hasPendingDiff
  /\ Becomes(rejectChanges(Here), "rejectChanges")
  /\ UNCHANGED <<requests, used>>

\* the return at 955
SwitchThread ==
  \E i \in 1..Len(state.threads) :
    /\ state.activeThreadId # <<state.threads[i].id>>
    /\ Becomes(switchToThread(Here, state.threads[i].id), "switchToThread")
    /\ UNCHANGED <<requests, used>>

NewThread ==
  /\ Becomes(createNewThread(Here), "createNewThread")
  /\ UNCHANGED <<requests, used>>

\* no string has been handed to the marker functions
NoMarkup == [from |-> "none", diffMarkdown |-> <<>>, placeholders |-> <<>>, spans |-> <<>>]

\* no state object and no raw response
NoHeap == [objects |-> <<>>, args |-> <<>>, returned |-> <<>>]
NoResponse == [raw |-> <<>>, result |-> <<>>]
NoFolder == [found |-> FALSE, entries |-> <<>>, result |-> <<>>]
LibIdle ==
  /\ heap = NoHeap /\ response = NoResponse /\ tokens = <<>>
  /\ charCode = FirstCharCode /\ folder = NoFolder

PureIdle ==
  /\ original = <<>> /\ proposed = <<>> /\ merged = <<>> /\ changes = <<>>
  /\ pc = "off"
  /\ markup = NoMarkup
  /\ LibIdle

Init == AppInit /\ PureIdle

Next ==
  \/ FileOpen
  \/ NewDocument
  \/ TypeChar
  \/ SelectWord
  \/ Deselect
  \/ Submit
  \/ ResponseEdit
  \/ ResponseChat
  \/ AcceptSingle
  \/ RejectSingle
  \/ AcceptAll
  \/ RejectAll
  \/ SwitchThread
  \/ NewThread

Spec == Init /\ [][Next]_vars

(***************************************************************************)
(* The functions of Part I on drawn inputs.                                *)
(***************************************************************************)
Texts == TextsUpTo(MaxLen)

DiffInit ==
  /\ original \in Texts
  /\ proposed \in Texts
  /\ merged = <<>>
  /\ changes = <<>>
  /\ pc = "input"
  /\ markup = NoMarkup
  /\ LibIdle
  /\ AppInit

ComputeWordDiff ==
  /\ pc = "input"
  /\ merged' = computeWordDiff(original, proposed)
  /\ pc' = "diffed"
  /\ UNCHANGED <<original, proposed, changes, markup, heap, response, tokens,
                 charCode, folder>>
  /\ UNCHANGED appVars

GroupDiffsIntoChanges ==
  /\ pc = "diffed"
  /\ changes' = groupDiffsIntoChanges(merged)
  /\ pc' = "grouped"
  /\ UNCHANGED <<original, proposed, merged, markup, heap, response, tokens,
                 charCode, folder>>
  /\ UNCHANGED appVars

DiffNext == ComputeWordDiff \/ GroupDiffsIntoChanges

SpecDiff == DiffInit /\ [][DiffNext]_vars


(***************************************************************************)
(* The tokenizer on drawn texts: letters, blanks and line breaks.          *)
(***************************************************************************)
MaxTokenLen == 5

TokenTexts == UNION {[1..n -> {"a", " ", "\n"}] : n \in 0..MaxTokenLen}

TokenInit ==
  /\ original \in TokenTexts
  /\ proposed = <<>> /\ merged = <<>> /\ changes = <<>>
  /\ pc = "text"
  /\ markup = NoMarkup
  /\ LibIdle
  /\ AppInit

Tokenize ==
  /\ pc = "text"
  /\ tokens' = tokenize(original)
  /\ pc' = "tokens"
  /\ UNCHANGED <<original, proposed, merged, changes, markup, heap, response,
                 charCode, folder>>
  /\ UNCHANGED appVars

TokenNext == Tokenize

SpecTokens == TokenInit /\ [][TokenNext]_vars


(***************************************************************************)
(* getWordChar over many distinct words.  Only the counter is kept: the    *)
(* k-th distinct word is stored under CharOf(k), and charCode is           *)
(* FirstCharCode plus the number of words stored.                          *)
(***************************************************************************)
\* distinct words met in one step of GetWordChars
BatchSize == 4096
\* steps of one word and steps of BatchSize words in a run
MaxSingles == 8
MaxBatches == 17

\* the number of distinct words stored in wordMap
WordCount == charCode - FirstCharCode

CodeInit ==
  /\ original = <<>> /\ proposed = <<>> /\ merged = <<>> /\ changes = <<>>
  /\ pc = "codes"
  /\ markup = NoMarkup
  /\ LibIdle
  /\ AppInit

\* getWordChar(word) for a word that is not in wordMap
GetWordChar ==
  /\ pc = "codes"
  /\ WordCount % BatchSize < MaxSingles
  /\ charCode' = charCode + 1
  /\ UNCHANGED <<original, proposed, merged, changes, pc, markup, heap, response, tokens,
                 folder>>
  /\ UNCHANGED appVars

\* tokens.map(getWordChar) over BatchSize words none of which is in wordMap
GetWordChars ==
  /\ pc = "codes"
  /\ WordCount \div BatchSize < MaxBatches
  /\ charCode' = charCode + BatchSize
  /\ UNCHANGED <<original, proposed, merged, changes, pc, markup, heap, response, tokens,
                 folder>>
  /\ UNCHANGED appVars

CodeNext == GetWordChar \/ GetWordChars

SpecCodes == CodeInit /\ [][CodeNext]_vars


(***************************************************************************)
(* groupDiffsIntoChanges on drawn lists of diff parts.                     *)
(***************************************************************************)
MaxParts == 4

\* the texts of the drawn parts
PartTexts == { <<"a">>, <<"b">> }

Parts == [type : {DELETE, EQUAL, INSERT}, text : PartTexts]

PartLists == UNION {[1..n -> Parts] : n \in 0..MaxParts}

GroupInit ==
  /\ original = <<>>
  /\ proposed = <<>>
  /\ merged \in PartLists
  /\ changes = <<>>
  /\ pc = "parts"
  /\ markup = NoMarkup
  /\ LibIdle
  /\ AppInit

GroupParts ==
  /\ pc = "parts"
  /\ changes' = groupDiffsIntoChanges(merged)
  /\ pc' = "partsGrouped"
  /\ UNCHANGED <<original, proposed, merged, markup, heap, response, tokens,
                 charCode, folder>>
  /\ UNCHANGED appVars

GroupNext == GroupParts

SpecGroup == GroupInit /\ [][GroupNext]_vars


(***************************************************************************)
(* Diff markers (lib/diffMarkers.js, the same code as renderer.js          *)
(* 1568-1618 without the markdown parser between the two conversions).     *)
(* A string is a sequence of characters; NUL stands for the one character  *)
(* \x00.                                                                   *)
(***************************************************************************)
NUL == "\\x00"

Digits == <<"0", "1", "2", "3", "4", "5", "6", "7", "8", "9">>

\* \d
IsDigit(c) == \E i \in 1..Len(Digits) : Digits[i] = c

RECURSIVE Decimal(_)
\* `${changeId}`: the decimal digits of a number
Decimal(n) ==
  IF n < 10 THEN <<Digits[n + 1]>>
  ELSE Decimal(n \div 10) \o <<Digits[(n % 10) + 1]>>

\* the length of the longest run of digits s starts with: what (\d+) takes
DigitRun(s) ==
  CHOOSE n \in 0..Len(s) :
    /\ \A i \in 1..n : IsDigit(s[i])
    /\ n = Len(s) \/ ~IsDigit(s[n + 1])

StartsWith(s, prefix) ==
  Len(s) >= Len(prefix) /\ SubSeq(s, 1, Len(prefix)) = prefix

Drop(s, n) == SubSeq(s, n + 1, Len(s))

\* the sentinels \x00DEL{id}\x00 ... \x00/DEL\x00 and \x00INS{id}\x00 ... \x00/INS\x00
DEL == <<"D", "E", "L">>
INS == <<"I", "N", "S">>
MarkerOpen(kind) == <<NUL>> \o kind
MarkerMid == <<NUL>>
MarkerClose(kind) == <<NUL, "/">> \o kind \o <<NUL>>

\* the placeholders <diffdelete data-id="{id}"> ... </diffdelete>
diffdelete == <<"d", "i", "f", "f", "d", "e", "l", "e", "t", "e">>
diffinsert == <<"d", "i", "f", "f", "i", "n", "s", "e", "r", "t">>
PlaceholderOpen(tag) == <<"<">> \o tag \o <<" ", "d", "a", "t", "a", "-", "i", "d", "=", "\"">>
PlaceholderClose(tag) == <<"<", "/">> \o tag \o <<">">>
TagEnd == <<"\"", ">">>

\* the spans <span class="diff-delete" data-change-id="{id}"> ... </span>
diff_delete == <<"d", "i", "f", "f", "-", "d", "e", "l", "e", "t", "e">>
diff_insert == <<"d", "i", "f", "f", "-", "i", "n", "s", "e", "r", "t">>
SpanOpen(cls) == <<"<", "s", "p", "a", "n", " ", "c", "l", "a", "s", "s", "=", "\"">> \o cls \o <<"\"", " ", "d", "a", "t", "a", "-", "c", "h", "a", "n", "g", "e", "-", "i", "d", "=", "\"">>
SpanClose == <<"<", "/", "s", "p", "a", "n", ">">>

\* open, a run of digits and mid stand in s after its first p characters
OpensAt(s, p, open, mid) ==
  LET afterOpen == Drop(s, p + Len(open))
      n == DigitRun(afterOpen)
  IN  /\ StartsWith(Drop(s, p), open)
      /\ n >= 1
      /\ StartsWith(Drop(afterOpen, n), mid)

\* what follows the opening that stands after the first p characters of s
AfterOpening(s, p, open, mid) ==
  LET afterOpen == Drop(s, p + Len(open))
  IN  Drop(afterOpen, DigitRun(afterOpen) + Len(mid))

\* the digits of the opening that stands after the first p characters of s: $1
IdOfOpening(s, p, open) ==
  LET afterOpen == Drop(s, p + Len(open))
  IN  SubSeq(afterOpen, 1, DigitRun(afterOpen))

RECURSIVE replaceTaggedDropsUnmatched(_, _, _, _, _, _, _)
\* a replacement that deletes an opening with no closing after it
replaceTaggedDropsUnmatched(s, open, mid, close, open2, mid2, close2) ==
  LET P == {p \in 0..Len(s) : OpensAt(s, p, open, mid)}
  IN  IF P = {} THEN s
      ELSE LET p == CHOOSE q \in P : \A r \in P : q <= r
               rest == AfterOpening(s, p, open, mid)
               k == indexOf(rest, close)
           IN  IF k = -1
               THEN SubSeq(s, 1, p)
                    \o replaceTaggedDropsUnmatched(rest, open, mid, close, open2, mid2, close2)
               ELSE SubSeq(s, 1, p)
                    \o open2 \o IdOfOpening(s, p, open) \o mid2 \o SubSeq(rest, 1, k) \o close2
                    \o replaceTaggedDropsUnmatched(Drop(rest, k + Len(close)),
                                                   open, mid, close, open2, mid2, close2)

RECURSIVE replaceTagged(_, _, _, _, _, _, _)
\* s.replace(/open(\d+)mid([\s\S]*?)close/g, 'open2$1mid2$2close2'): the match is the
\* leftmost place where open, a run of digits and mid stand and close occurs after
\* them; it ends with the first such close; what precedes the match is copied and the
\* search goes on after the match
replaceTagged(s, open, mid, close, open2, mid2, close2) ==
  LET P == {p \in 0..Len(s) :
              /\ OpensAt(s, p, open, mid)
              /\ indexOf(AfterOpening(s, p, open, mid), close) # -1}
  IN  IF P = {} THEN s
      ELSE LET p == CHOOSE q \in P : \A r \in P : q <= r
               rest == AfterOpening(s, p, open, mid)
               k == indexOf(rest, close)
           IN  SubSeq(s, 1, p)
               \o open2 \o IdOfOpening(s, p, open) \o mid2 \o SubSeq(rest, 1, k) \o close2
               \o replaceTagged(Drop(rest, k + Len(close)),
                                open, mid, close, open2, mid2, close2)

\* markersToPlaceholders(text)
markersToPlaceholders(text) ==
  LET result == replaceTagged(text, MarkerOpen(DEL), MarkerMid, MarkerClose(DEL),
                              PlaceholderOpen(diffdelete), TagEnd,
                              PlaceholderClose(diffdelete))
  IN  replaceTagged(result, MarkerOpen(INS), MarkerMid, MarkerClose(INS),
                    PlaceholderOpen(diffinsert), TagEnd, PlaceholderClose(diffinsert))

\* placeholdersToSpans(html)
placeholdersToSpans(html) ==
  LET result == replaceTagged(html, PlaceholderOpen(diffdelete), TagEnd,
                              PlaceholderClose(diffdelete),
                              SpanOpen(diff_delete), TagEnd, SpanClose)
  IN  replaceTagged(result, PlaceholderOpen(diffinsert), TagEnd,
                    PlaceholderClose(diffinsert),
                    SpanOpen(diff_insert), TagEnd, SpanClose)

\* markers that carry the last digit of the id only
PartMarkdownLastDigit(changeId, part) ==
  IF part.type = DELETE
  THEN MarkerOpen(DEL) \o <<Digits[(changeId % 10) + 1]>> \o MarkerMid \o part.text
       \o MarkerClose(DEL)
  ELSE IF part.type = INSERT
  THEN MarkerOpen(INS) \o <<Digits[(changeId % 10) + 1]>> \o MarkerMid \o part.text
       \o MarkerClose(INS)
  ELSE <<>>

\* the markers buildDiffMarkdown appends for one part of a change unit
PartMarkdown(changeId, part) ==
  IF part.type = DELETE
  THEN MarkerOpen(DEL) \o Decimal(changeId) \o MarkerMid \o part.text \o MarkerClose(DEL)
  ELSE IF part.type = INSERT
  THEN MarkerOpen(INS) \o Decimal(changeId) \o MarkerMid \o part.text \o MarkerClose(INS)
  ELSE <<>>

RECURSIVE PartsMarkdown(_, _)
PartsMarkdown(changeId, parts) ==
  IF parts = <<>> THEN <<>>
  ELSE PartMarkdown(changeId, Head(parts)) \o PartsMarkdown(changeId, Tail(parts))

RECURSIVE buildDiffMarkdown(_)
\* buildDiffMarkdown(changes)
buildDiffMarkdown(units) ==
  IF units = <<>> THEN <<>>
  ELSE (IF Head(units).type = "equal" THEN Head(units).parts[1].text
        ELSE PartsMarkdown(Head(units).id[1], Head(units).parts))
       \o buildDiffMarkdown(Tail(units))

(***************************************************************************)
(* The marker functions on drawn inputs: the units grouped from a list of  *)
(* parts, a marked text, or HTML with placeholders.                        *)
(***************************************************************************)
MaxMarkerParts == 3
MaxMarkerUnits == 11
MaxLexemes == 4

\* the texts of the drawn parts: a word, two paragraphs, a literal closing placeholder
\* and a literal closing sentinel
MarkerTexts ==
  { <<"a">>, <<"a", "\n", "\n", "b">>, PlaceholderClose(diffdelete), MarkerClose(DEL) }

MarkerParts == [type : {DELETE, EQUAL, INSERT}, text : MarkerTexts]

MarkerPartLists == UNION {[1..n -> MarkerParts] : n \in 0..MaxMarkerParts}

\* lists that group into MaxMarkerUnits change units, so that ids of two digits occur
LongPartLists ==
  {[i \in 1..MaxMarkerUnits |-> [type |-> type, text |-> <<"a">>]] : type \in {DELETE, INSERT}}

\* the pieces a drawn marked text is made of; the last is an opening without an id
TextLexemes ==
  { <<"a">>,
    MarkerOpen(DEL) \o Decimal(0) \o MarkerMid, MarkerClose(DEL),
    MarkerOpen(INS) \o Decimal(1) \o MarkerMid, MarkerClose(INS),
    MarkerOpen(DEL) \o MarkerMid }

\* the pieces a drawn HTML string is made of
HtmlLexemes ==
  { <<"a">>,
    PlaceholderOpen(diffdelete) \o Decimal(0) \o TagEnd, PlaceholderClose(diffdelete),
    PlaceholderOpen(diffinsert) \o Decimal(1) \o TagEnd, PlaceholderClose(diffinsert),
    PlaceholderOpen(diffdelete) \o TagEnd }

Strings(lexemes) ==
  {Concat(l) : l \in UNION {[1..n -> lexemes] : n \in 0..MaxLexemes}}

MarkerInit ==
  /\ original = <<>>
  /\ proposed = <<>>
  /\ \/ /\ pc = "units"
        /\ merged \in MarkerPartLists \cup LongPartLists
        /\ changes = groupDiffsIntoChanges(merged)
        /\ markup = [NoMarkup EXCEPT !.from = "units"]
     \/ /\ pc = "markdown"
        /\ merged = <<>>
        /\ changes = <<>>
        /\ \E text \in Strings(TextLexemes) :
             markup = [NoMarkup EXCEPT !.from = "text", !.diffMarkdown = text]
     \/ /\ pc = "placeholders"
        /\ merged = <<>>
        /\ changes = <<>>
        /\ \E html \in Strings(HtmlLexemes) :
             markup = [NoMarkup EXCEPT !.from = "html", !.placeholders = html]
  /\ LibIdle
  /\ AppInit

BuildDiffMarkdown ==
  /\ pc = "units"
  /\ markup' = [markup EXCEPT !.diffMarkdown = buildDiffMarkdown(changes)]
  /\ pc' = "markdown"
  /\ UNCHANGED <<original, proposed, merged, changes, heap, response, tokens,
                 charCode, folder>>
  /\ UNCHANGED appVars

MarkersToPlaceholders ==
  /\ pc = "markdown"
  /\ markup' = [markup EXCEPT !.placeholders = markersToPlaceholders(markup.diffMarkdown)]
  /\ pc' = "placeholders"
  /\ UNCHANGED <<original, proposed, merged, changes, heap, response, tokens,
                 charCode, folder>>
  /\ UNCHANGED appVars

PlaceholdersToSpans ==
  /\ pc = "placeholders"
  /\ markup' = [markup EXCEPT !.spans = placeholdersToSpans(markup.placeholders)]
  /\ pc' = "spans"
  /\ UNCHANGED <<original, proposed, merged, changes, heap, response, tokens,
                 charCode, folder>>
  /\ UNCHANGED appVars

MarkerNext == BuildDiffMarkdown \/ MarkersToPlaceholders \/ PlaceholdersToSpans

SpecMarkers == MarkerInit /\ [][MarkerNext]_vars


(***************************************************************************)
(* The diff state object (lib/diffState.js).  A state object lives in      *)
(* heap.objects and is named by its index; a function that mutates its     *)
(* argument rewrites the object at that index.                             *)
(***************************************************************************)
\* createInitialDiffState()
createInitialDiffState ==
  [hasPendingDiff |-> FALSE, originalContent |-> <<>>, originalHtml |-> <<>>,
   originalFullContent |-> <<>>, proposedContent |-> <<>>, proposedHtml |-> <<>>,
   isSelectionEdit |-> FALSE, selectedText |-> <<>>, selectionStart |-> 0,
   selectionEnd |-> 0, diffChanges |-> <<>>]

\* a clearDiffState that builds a new object and leaves its argument as it was
clearDiffStateFresh(h, ref) ==
  [h EXCEPT !.objects = Append(@, createInitialDiffState),
            !.returned = <<Len(h.objects) + 1>>]

\* clearDiffState(state), state being the object ref of heap h
clearDiffState(h, ref) ==
  [h EXCEPT !.objects[ref] =
              [@ EXCEPT !.hasPendingDiff = FALSE, !.originalContent = <<>>,
                        !.originalHtml = <<>>, !.originalFullContent = <<>>,
                        !.proposedContent = <<>>, !.proposedHtml = <<>>,
                        !.isSelectionEdit = FALSE, !.selectedText = <<>>,
                        !.selectionStart = 0, !.selectionEnd = 0,
                        !.diffChanges = <<>>],
            !.returned = <<ref>>]

\* an updateSelectionState that also ends the selection edit
updateSelectionStateEndsEdit(h, ref, text, start, end) ==
  [h EXCEPT !.objects[ref] =
              [@ EXCEPT !.selectedText = text, !.selectionStart = start,
                        !.selectionEnd = end, !.isSelectionEdit = FALSE],
            !.returned = <<>>]

\* updateSelectionState(state, text, start, end); it returns nothing
updateSelectionState(h, ref, text, start, end) ==
  [h EXCEPT !.objects[ref] =
              [@ EXCEPT !.selectedText = text, !.selectionStart = start,
                        !.selectionEnd = end],
            !.returned = <<>>]

(***************************************************************************)
(* The functions of lib/diffState.js on drawn state objects.               *)
(***************************************************************************)
MaxOffset == 1

StateTexts == { <<>>, <<"a">> }

\* the state objects a call is made on
DiffStates ==
  [hasPendingDiff : BOOLEAN, originalContent : StateTexts, originalHtml : StateTexts,
   originalFullContent : StateTexts, proposedContent : StateTexts,
   proposedHtml : StateTexts, isSelectionEdit : BOOLEAN, selectedText : StateTexts,
   selectionStart : 0..MaxOffset, selectionEnd : 0..MaxOffset,
   diffChanges : {<<>>, groupDiffsIntoChanges(<<[type |-> INSERT, text |-> <<"a">>]>>)}]

\* the arguments text, start and end of updateSelectionState
SelectionArgs == { <<"b">>, <<>> } \X (0..(MaxOffset + 1)) \X (0..(MaxOffset + 1))

StateInit ==
  /\ original = <<>> /\ proposed = <<>> /\ merged = <<>> /\ changes = <<>>
  /\ pc = "state"
  /\ markup = NoMarkup
  /\ \E object \in DiffStates : heap = [NoHeap EXCEPT !.objects = <<object>>]
  /\ response = NoResponse
  /\ tokens = <<>>
  /\ charCode = FirstCharCode /\ folder = NoFolder
  /\ AppInit

\* on a drawn object, or on the object a selection was just set on
ClearDiffState ==
  /\ pc \in {"state", "updated"}
  /\ heap' = clearDiffState(heap, 1)
  /\ pc' = "cleared"
  /\ UNCHANGED <<original, proposed, merged, changes, markup, response, tokens,
                 charCode, folder>>
  /\ UNCHANGED appVars

UpdateSelectionState ==
  /\ pc = "state"
  /\ \E args \in SelectionArgs :
       heap' = updateSelectionState([heap EXCEPT !.args = args], 1,
                                    args[1], args[2], args[3])
  /\ pc' = "updated"
  /\ UNCHANGED <<original, proposed, merged, changes, markup, response, tokens,
                 charCode, folder>>
  /\ UNCHANGED appVars

StateNext == ClearDiffState \/ UpdateSelectionState

SpecState == StateInit /\ [][StateNext]_vars


(***************************************************************************)
(* parseClaudeResponse (__tests__/response-parsing.test.js 7-39).  A raw   *)
(* response is a sequence of lexemes: the braces, the comma, a blank, a    *)
(* letter, the literal null and whole members "key":"value".  null is <<>> *)
(* and a present value v is <<v>>.                                         *)
(***************************************************************************)
LBRACE == "{"
RBRACE == "}"
COMMA == ","
BLANK == " "
LETTER == "x"
NULL == "null"

\* the members: "reply":"r", "text":"t" and "summary":"" (an empty string)
Members ==
  { [lexeme |-> "\"reply\":\"r\"", key |-> "reply", value |-> <<"r">>],
    [lexeme |-> "\"text\":\"t\"", key |-> "text", value |-> <<"t">>],
    [lexeme |-> "\"summary\":\"\"", key |-> "summary", value |-> <<>>] }

IsMember(lexeme) == \E member \in Members : member.lexeme = lexeme

MemberOf(lexeme) == CHOOSE member \in Members : member.lexeme = lexeme

\* rawContent.trim()
trim(raw) ==
  LET Kept == {i \in 1..Len(raw) : raw[i] # BLANK}
  IN  IF Kept = {} THEN <<>>
      ELSE SubSeq(raw, CHOOSE i \in Kept : \A j \in Kept : i <= j,
                       CHOOSE i \in Kept : \A j \in Kept : j <= i)

\* the lexemes of a string without the blanks, which JSON allows between them
NoBlanks(raw) == SelectSeq(raw, LAMBDA lexeme : lexeme # BLANK)

\* s is the text of a JSON object: braces around members separated by commas
IsObjectText(s) ==
  LET t == NoBlanks(s) IN
  /\ Len(t) >= 2
  /\ t[1] = LBRACE
  /\ t[Len(t)] = RBRACE
  /\ \/ Len(t) = 2
     \/ /\ Len(t) % 2 = 1
        /\ \A i \in 2..(Len(t) - 1) :
             IF i % 2 = 0 THEN IsMember(t[i]) ELSE t[i] = COMMA

\* the value of key in the object of text s (the last member with that key), or <<>>
\* when no member has the key
Property(s, key) ==
  LET t == NoBlanks(s)
      At == {i \in 1..Len(t) : IsMember(t[i]) /\ MemberOf(t[i]).key = key}
  IN  IF At = {} THEN <<>>
      ELSE <<MemberOf(t[CHOOSE i \in At : \A j \in At : j <= i]).value>>

\* JSON.parse(s): "object", "null", or "SyntaxError" when it throws
JSONparse(s) ==
  IF IsObjectText(s) THEN "object"
  ELSE IF NoBlanks(s) = <<NULL>> THEN "null"
  ELSE "SyntaxError"

\* parsed.key || null: null when the property is absent or an empty string
OrNull(s, key) ==
  IF Property(s, key) = <<>> \/ Property(s, key) = <<<<>>>> THEN <<>>
  ELSE Property(s, key)

\* content, summary and reply read from the parsed object of text s
FromParsed(s) ==
  [content |-> OrNull(s, "text"), summary |-> OrNull(s, "summary"),
   reply |-> OrNull(s, "reply")]

\* the entire response as the reply
AsReply(rawContent) == [content |-> <<>>, summary |-> <<>>, reply |-> <<rawContent>>]

\* rawContent.match(/\{[\s\S]*"(?:reply|summary|text)"[\s\S]*\}/): <<>> when there
\* is no match, else <<the match>>, which runs from the leftmost opening brace that has
\* a key and then a closing brace after it to the last closing brace
jsonMatch(rawContent) ==
  LET n == Len(rawContent)
      Starts == {i \in 1..n :
                   /\ rawContent[i] = LBRACE
                   /\ \E j \in (i + 1)..n : \E k \in (j + 1)..n :
                        IsMember(rawContent[j]) /\ rawContent[k] = RBRACE}
      Ends == {k \in 1..n : rawContent[k] = RBRACE}
  IN  IF Starts = {} THEN <<>>
      ELSE << SubSeq(rawContent, CHOOSE i \in Starts : \A j \in Starts : i <= j,
                                 CHOOSE k \in Ends : \A j \in Ends : j <= k) >>

\* a parser whose inner catch block leaves the reply null
parseClaudeResponseDropsReply(raw) ==
  LET rawContent == trim(raw) IN
  IF JSONparse(rawContent) = "object" THEN FromParsed(rawContent)
  ELSE IF jsonMatch(rawContent) # <<>>
  THEN IF JSONparse(jsonMatch(rawContent)[1]) = "object"
       THEN FromParsed(jsonMatch(rawContent)[1])
       ELSE [content |-> <<>>, summary |-> <<>>, reply |-> <<>>]
  ELSE AsReply(rawContent)

\* parseClaudeResponse(rawContent).  JSON.parse throws on text that is not JSON, and
\* reading parsed.text throws when parsed is null: both land in the catch block.  A
\* match starts and ends with a brace, so it never parses to null.
parseClaudeResponse(raw) ==
  LET rawContent == trim(raw) IN
  IF JSONparse(rawContent) = "object" THEN FromParsed(rawContent)
  ELSE IF jsonMatch(rawContent) # <<>>
  THEN IF JSONparse(jsonMatch(rawContent)[1]) = "object"
       THEN FromParsed(jsonMatch(rawContent)[1])
       ELSE AsReply(rawContent)
  ELSE AsReply(rawContent)

(***************************************************************************)
(* parseClaudeResponse on drawn raw responses.                             *)
(***************************************************************************)
MaxRawLen == 5

RawLexemes ==
  {LBRACE, RBRACE, COMMA, BLANK, LETTER, NULL} \cup {member.lexeme : member \in Members}

RawResponses == UNION {[1..n -> RawLexemes] : n \in 0..MaxRawLen}

ParseInit ==
  /\ original = <<>> /\ proposed = <<>> /\ merged = <<>> /\ changes = <<>>
  /\ pc = "raw"
  /\ markup = NoMarkup
  /\ heap = NoHeap
  /\ \E raw \in RawResponses : response = [NoResponse EXCEPT !.raw = raw]
  /\ tokens = <<>>
  /\ charCode = FirstCharCode /\ folder = NoFolder
  /\ AppInit

ParseClaudeResponse ==
  /\ pc = "raw"
  /\ response' = [response EXCEPT !.result = <<parseClaudeResponse(response.raw)>>]
  /\ pc' = "parsed"
  /\ UNCHANGED <<original, proposed, merged, changes, markup, heap, tokens,
                 charCode, folder>>
  /\ UNCHANGED appVars

ParseNext == ParseClaudeResponse

SpecParse == ParseInit /\ [][ParseNext]_vars


(***************************************************************************)
(* The read-context-folder handler of the main process (main.js, part_000  *)
(* 644-694).  A directory entry is a record [name, isFile, size]: the name *)
(* of the Dirent, its isFile() and the size statSync reports for it.  The  *)
(* content of a returned file is named by the position of its entry.       *)
(***************************************************************************)
maxTotalSize == 200 * 1024
MaxFileSize == 50 * 1024

allowedExtensions == {<<".", "t", "x", "t">>, <<".", "m", "d">>,
                      <<".", "m", "a", "r", "k", "d", "o", "w", "n">>}

\* String.prototype.toLowerCase on the letters the drawn names hold
toLowerCase(text) ==
  [i \in 1..Len(text) |->
     CASE text[i] = "M" -> "m" [] text[i] = "D" -> "d"
       [] text[i] = "T" -> "t" [] text[i] = "X" -> "x" [] OTHER -> text[i]]

\* path.extname: from the last dot on, '' when there is none or the name starts with it
extname(name) ==
  LET dots == {i \in 1..Len(name) : name[i] = "."}
  IN  IF dots = {} THEN <<>>
      ELSE LET i == CHOOSE d \in dots : \A e \in dots : e <= d
           IN  IF i = 1 THEN <<>> ELSE SubSeq(name, i, Len(name))

RECURSIVE ScanGoesOn(_, _, _, _)
\* a loop that skips the file that does not fit and goes on
ScanGoesOn(entries, k, files, totalSize) ==
  IF k > Len(entries)
  THEN [success |-> TRUE, files |-> files, totalSize |-> totalSize, truncated |-> FALSE]
  ELSE LET entry == entries[k]
       IN  IF ~entry.isFile THEN ScanGoesOn(entries, k + 1, files, totalSize)
           ELSE IF toLowerCase(extname(entry.name)) \notin allowedExtensions
           THEN ScanGoesOn(entries, k + 1, files, totalSize)
           ELSE IF entry.size > MaxFileSize
           THEN ScanGoesOn(entries, k + 1, files, totalSize)
           ELSE IF totalSize + entry.size > maxTotalSize
           THEN ScanGoesOn(entries, k + 1, files, totalSize)
           ELSE ScanGoesOn(entries, k + 1,
                           Append(files, [name |-> entry.name, content |-> k]),
                           totalSize + entry.size)

RECURSIVE Scan(_, _, _, _)
\* the for loop over the entries from the k-th on (657-682) and the final return
Scan(entries, k, files, totalSize) ==
  IF k > Len(entries)
  THEN [success |-> TRUE, files |-> files, totalSize |-> totalSize, truncated |-> FALSE]
  ELSE LET entry == entries[k]
       IN  IF ~entry.isFile THEN Scan(entries, k + 1, files, totalSize)
           ELSE IF toLowerCase(extname(entry.name)) \notin allowedExtensions
           THEN Scan(entries, k + 1, files, totalSize)
           ELSE IF entry.size > MaxFileSize
           THEN Scan(entries, k + 1, files, totalSize)
           ELSE IF totalSize + entry.size > maxTotalSize
           THEN [success |-> TRUE, files |-> files, totalSize |-> totalSize,
                 truncated |-> TRUE]
           ELSE Scan(entries, k + 1,
                     Append(files, [name |-> entry.name, content |-> k]),
                     totalSize + entry.size)

readContextFolder(f) ==
  IF ~f.found THEN [success |-> FALSE] ELSE Scan(f.entries, 1, <<>>, 0)

(***************************************************************************)
(* read-context-folder on folders built entry by entry.  The names of a    *)
(* folder are distinct: an entry is named by its position followed by a    *)
(* suffix, the hidden file '.md' apart, of which a folder holds one.       *)
(***************************************************************************)
MaxEntries == 6

\* a file of exactly 50KB, a small file with a capital extension, a file one byte
\* over 50KB, a file of another type, a directory named like a markdown file, and
\* the hidden file '.md', which has no extension
EntryShapes ==
  { [suffix |-> <<".", "m", "d">>, stem |-> TRUE, isFile |-> TRUE, size |-> MaxFileSize],
    [suffix |-> <<".", "T", "X", "T">>, stem |-> TRUE, isFile |-> TRUE, size |-> 1],
    [suffix |-> <<".", "m", "a", "r", "k", "d", "o", "w", "n">>, stem |-> TRUE,
     isFile |-> TRUE, size |-> MaxFileSize + 1],
    [suffix |-> <<".", "j", "s">>, stem |-> TRUE, isFile |-> TRUE, size |-> 1],
    [suffix |-> <<".", "m", "d">>, stem |-> TRUE, isFile |-> FALSE, size |-> 1],
    [suffix |-> <<".", "m", "d">>, stem |-> FALSE, isFile |-> TRUE, size |-> 1] }

EntryOf(shape, k) ==
  [name |-> (IF shape.stem THEN Decimal(k) ELSE <<>>) \o shape.suffix,
   isFile |-> shape.isFile, size |-> shape.size]

FolderInit ==
  /\ original = <<>> /\ proposed = <<>> /\ merged = <<>> /\ changes = <<>>
  /\ pc = "folder"
  /\ markup = NoMarkup
  /\ heap = NoHeap /\ response = NoResponse /\ tokens = <<>>
  /\ charCode = FirstCharCode
  /\ folder \in {NoFolder, [NoFolder EXCEPT !.found = TRUE]}
  /\ AppInit

\* one more entry in the folder, before the handler runs
AddEntry ==
  /\ pc = "folder"
  /\ folder.found
  /\ Len(folder.entries) < MaxEntries
  /\ \E shape \in EntryShapes :
       LET entry == EntryOf(shape, Len(folder.entries) + 1)
       IN  /\ \A k \in 1..Len(folder.entries) : folder.entries[k].name # entry.name
           /\ folder' = [folder EXCEPT !.entries = Append(@, entry)]
  /\ UNCHANGED <<original, proposed, merged, changes, pc, markup, heap, response,
                 tokens, charCode>>
  /\ UNCHANGED appVars

ReadContextFolder ==
  /\ pc = "folder"
  /\ folder' = [folder EXCEPT !.result = <<readContextFolder(folder)>>]
  /\ pc' = "read"
  /\ UNCHANGED <<original, proposed, merged, changes, markup, heap, response, tokens,
                 charCode>>
  /\ UNCHANGED appVars

FolderNext == AddEntry \/ ReadContextFolder

SpecFolder == FolderInit /\ [][FolderNext]_vars


(***************************************************************************)
(* Two requests that overlap: handleThreadSubmit has no guard against a    *)
(* submit while an earlier request awaits its response (1328-1345), and    *)
(* each response resumes its own call after the await (1345-1376).  A      *)
(* request carries the number of its submission, and the session shown for *)
(* its response takes that number as sid.                                  *)
(***************************************************************************)
MaxRaceSubmits == 2

\* handleThreadSubmit; a second one only while the first awaits its response
RaceSubmit ==
  /\ used.submits = 0 \/ Len(requests) = 1
  /\ Spend("submits", MaxRaceSubmits)
  /\ LET w == submitRequest(Here)
     IN  /\ Becomes(w, "handleThreadSubmit")
         /\ requests' = Append(requests, RequestOf(w) @@ [seq |-> used.submits + 1])

\* the response to request i is an edit
RaceResponseEdit ==
  \E i \in 1..Len(requests) :
    \E content \in Proposals(requests[i]) :
      /\ Took(receiveEdit(Here, requests[i], content, requests[i].seq), "response",
              <<requests[i].seq>>)
      /\ requests' = Without(requests, i)
      /\ UNCHANGED used

RaceNext ==
  \/ FileOpen
  \/ SelectWord
  \/ Deselect
  \/ RaceSubmit
  \/ RaceResponseEdit
  \/ NewThread
  \/ SwitchThread

SpecRace == Init /\ [][RaceNext]_vars


(***************************************************************************)
(* Properties of computeWordDiff, checked under SpecDiff.                  *)
(***************************************************************************)
HasPart(parts, type) == \E i \in 1..Len(parts) : parts[i].type = type

C29_PartsAlternate ==
  pc \in {"diffed", "grouped"} =>
    /\ \A i \in 1..Len(merged) : merged[i].text # <<>>
    /\ \A i \in 1..(Len(merged) - 1) : merged[i].type # merged[i + 1].type

\* computeWordDiff returned several parts, one of them merged from a word, a blank and
\* a word
C29_Witness ==
  /\ pc = "diffed"
  /\ Len(merged) >= 2
  /\ \E i \in 1..Len(merged) : Len(tokenize(merged[i].text)) = 3

(***************************************************************************)
(* Properties of the tokenizer, checked under SpecTokens.                  *)
(***************************************************************************)
\* C30: the tokenizer splits any string into tokens that are each entirely whitespace
\* or entirely non-whitespace, alternate in kind, are never empty and concatenate back
\* to the input; the empty string gives the empty list.
C30_TokensPartitionText ==
  pc = "tokens" =>
    /\ \A i \in 1..Len(tokens) :
         /\ tokens[i] # <<>>
         /\ \A j \in 1..Len(tokens[i]) : IsSpace(tokens[i][j]) = IsSpace(tokens[i][1])
    /\ \A i \in 1..(Len(tokens) - 1) :
         IsSpace(tokens[i][1]) # IsSpace(tokens[i + 1][1])
    /\ Concat(tokens) = original
    /\ original = <<>> => tokens = <<>>

\* the text 'a \n a' gave a word, a run of a blank and a line break, and a word
C30_Witness ==
  /\ pc = "tokens"
  /\ original = <<"a", " ", "\n", "a">>
  /\ tokens = << <<"a">>, <<" ", "\n">>, <<"a">> >>

(***************************************************************************)
(* Properties of the token codes, checked under SpecCodes.                 *)
(***************************************************************************)
\* C31: the token-to-code mapping of computeWordDiff is injective for any number of
\* distinct tokens: distinct tokens get distinct codes, so the code of the word stored
\* last is the code of no word stored before it.
C31_CodesAreDistinct ==
  \A k \in 1..(WordCount - 1) : CharOf(k) # CharOf(WordCount)


(***************************************************************************)
(* Properties of the diff session, checked under Spec.                     *)
(***************************************************************************)
\* the sessions held in memory: the one on display and those stored on threads
SessionsIn(st) ==
  {st.threads[t].diffState[1] :
     t \in {u \in 1..Len(st.threads) : st.threads[u].diffState # <<>>}}
  \cup (IF st.hasPendingDiff THEN {SessionOf(st)} ELSE {})

Flags(unit) == <<unit.resolved, unit.accepted, unit.rejected>>

ChangeUnits(units) == {i \in 1..Len(units) : units[i].type = "change"}

\* the flags of every unit spell Pending, Accepted or Rejected
FlagsWellFormed ==
  \A s \in SessionsIn(state) : \A i \in 1..Len(s.diffChanges) :
    /\ Flags(s.diffChanges[i]) \in
         {<<FALSE, FALSE, FALSE>>, <<TRUE, TRUE, FALSE>>, <<TRUE, FALSE, TRUE>>}
    /\ s.diffChanges[i].type = "equal" => ~s.diffChanges[i].resolved

\* a session that comes into memory has every unit Pending, and a unit that is resolved
\* keeps its flags wherever the session is held after the step
FlagsStep ==
  \A s2 \in SessionsIn(state') :
    /\ (\A s \in SessionsIn(state) : s.sid # s2.sid) =>
         \A i \in 1..Len(s2.diffChanges) : ~s2.diffChanges[i].resolved
    /\ \A s \in SessionsIn(state) :
         s.sid = s2.sid =>
           \A i \in 1..Len(s.diffChanges) :
             s.diffChanges[i].resolved =>
               Flags(s2.diffChanges[i]) = Flags(s.diffChanges[i])

UnitText(unit, pendingAs) ==
  IF unit.type = "equal" THEN unit.parts[1].text
  ELSE IF unit.accepted \/ (~unit.resolved /\ pendingAs = "accepted")
  THEN PartsText(unit.parts, {INSERT})
  ELSE PartsText(unit.parts, {DELETE})

Reconstruct(units, pendingAs) ==
  Concat([i \in 1..Len(units) |-> UnitText(units[i], pendingAs)])

\* the document that holds `text` where the session's original text was
Spliced(s, text) ==
  IF s.isSelectionEdit /\ s.originalFullContent # <<>>
     /\ indexOf(s.originalFullContent, s.originalContent) # -1
  THEN LET at == indexOf(s.originalFullContent, s.originalContent)
       IN  SubSeq(s.originalFullContent, 1, at) \o text
           \o SubSeq(s.originalFullContent, at + Len(s.originalContent) + 1,
                     Len(s.originalFullContent))
  ELSE text

\* the last step discarded a session in the given way
Discarded(how) == last.fin # <<>> /\ last.fin[1].how = how

\* C4: when a session finalizes after per-unit resolutions, the text is the
\* concatenation over the units in order of the Equal text, the Insert text of an
\* accepted unit and the Delete text of a rejected unit.
C4_FinalTextFollowsDecisions ==
  Discarded("finalize") =>
    getMarkdownContent(editor) =
      Spliced(last.fin[1].s, Reconstruct(last.fin[1].s.diffChanges, "accepted"))

\* C5: resolving every change unit individually as Accepted finalizes to the proposed
\* text, and resolving every one as Rejected finalizes to the original text.
C5_AllAcceptedOrAllRejected ==
  Discarded("finalize") =>
    LET s == last.fin[1].s
        C == ChangeUnits(s.diffChanges)
    IN  /\ (\A i \in C : s.diffChanges[i].accepted) =>
             getMarkdownContent(editor) = Spliced(s, s.proposedContent)
        /\ (\A i \in C : s.diffChanges[i].rejected) =>
             getMarkdownContent(editor) = Spliced(s, s.originalContent)

\* C6: acceptChanges applies Accepted to the units still Pending only: the text has the
\* Insert text of the pending and the accepted units and the Delete text of the units
\* rejected individually before.
C6_GlobalAcceptKeepsRejections ==
  Discarded("accept") =>
    getMarkdownContent(editor) =
      Spliced(last.fin[1].s, Reconstruct(last.fin[1].s.diffChanges, "accepted"))

\* C7: rejectChanges leaves the editor with the document as it was immediately before
\* the diff was shown, whatever happened earlier.
C7_GlobalRejectRestoresDocument ==
  Discarded("reject") => getMarkdownContent(editor) = last.fin[1].s.docBefore

\* a session with the given number is stored on a thread, in memory or in the history
\* file
StoredOnThread(sid) ==
  \/ \E t \in 1..Len(state.threads) :
       state.threads[t].diffState # <<>> /\ state.threads[t].diffState[1].sid = sid
  \/ /\ disk # <<>> /\ state.currentFilePath # <<>>
     /\ \E t \in 1..Len(disk[1].threads) :
          disk[1].threads[t].diffState # <<>> /\ disk[1].threads[t].diffState[1].sid = sid

\* C8: once a session is finalized by per-unit resolution, accepted or rejected as a
\* whole, hasPendingDiff is false, diffChanges is empty and no thread stores the
\* session, so that no save, reload or thread switch restores it.
C8_DiscardedEverywhere ==
  last.fin # <<>> =>
    /\ ~state.hasPendingDiff
    /\ state.diffChanges = <<>>
    /\ ~StoredOnThread(last.fin[1].s.sid)


\* the fields of a session record that a suspension has to keep
Kept(s) ==
  <<s.originalContent, s.originalFullContent, s.proposedContent, s.isSelectionEdit,
    s.selectionStart, s.selectionEnd, s.diffChanges>>

\* a step that leaves the thread on display stores the session on display on it
SuspendStep ==
  (last'.op \in {"switchToThread", "createNewThread"}
     /\ state.hasPendingDiff /\ ActiveIdx(state) # 0) =>
    LET t == ActiveIdx(state)
    IN  /\ state'.threads[t].diffState # <<>>
        /\ Kept(state'.threads[t].diffState[1]) = Kept(SessionOf(state))

\* a switch to a thread that stores a session puts that session on display
RestoreStep ==
  (last'.op = "switchToThread" /\ ActiveIdx(state') # 0
     /\ state.threads[ActiveIdx(state')].diffState # <<>>) =>
    /\ state'.hasPendingDiff
    /\ Kept(SessionOf(state')) = Kept(state.threads[ActiveIdx(state')].diffState[1])

\* no step touches what is stored on a thread that is not on display before or after it
OtherThreadsStep ==
  \A t \in 1..Len(state.threads) : \A u \in 1..Len(state'.threads) :
    (/\ state.threads[t].id = state'.threads[u].id
     /\ state.activeThreadId # <<state.threads[t].id>>
     /\ state'.activeThreadId # <<state.threads[t].id>>) =>
      state'.threads[u].diffState = state.threads[t].diffState

\* C9: a session suspended on a thread switch (saveCurrentDiffToThread) and restored
\* later (restoreDiffFromThread) has originalContent, originalFullContent,
\* proposedContent, isSelectionEdit, selectionStart, selectionEnd and diffChanges with
\* every unit's flags exactly as at the suspension, whatever happened in other threads.
C9_SuspendRestoreRoundTrip ==
  [][SuspendStep /\ RestoreStep /\ OtherThreadsStep]_vars

\* a partially resolved session is back on display after a thread switch
C9_Witness ==
  /\ last.op = "switchToThread"
  /\ state.hasPendingDiff
  /\ Unresolved(state.diffChanges) # {}
  /\ \E i \in ChangeUnits(state.diffChanges) : state.diffChanges[i].resolved

\* the editor shows a span of the change
Offered(changeId) == \E k \in 1..Len(editor) : editor[k].id = changeId

\* C10: after a partially resolved session is suspended and restored, the units resolved
\* before stay resolved and are not offered again, and resolving the pending ones
\* finalizes to the text every unit's decision determines.
C10_RestoredSessionKeepsDecisions ==
  /\ (last.op = "switchToThread" /\ state.hasPendingDiff) =>
       \A i \in ChangeUnits(state.diffChanges) :
         state.diffChanges[i].resolved => ~Offered(state.diffChanges[i].id)
  /\ Discarded("finalize") =>
       EditorText(editor) =
         Spliced(last.fin[1].s, Reconstruct(last.fin[1].s.diffChanges, "accepted"))

\* the last step was a click on accept or reject of a change
ClickStep == last'.op \in {"acceptSingleChange", "rejectSingleChange"}

\* index in state.diffChanges of the unit the click of this step names, 0 if none
Clicked == FindChange(state.diffChanges, last'.arg[1])

FlagsOf(units) == [k \in 1..Len(units) |-> Flags(units[k])]

\* C11: resolving a unit id that is already resolved, with the same or the other
\* decision, changes neither the unit's accepted / rejected flags nor the unresolved
\* count nor the document text.
C11_ResolvedUnitIsLeftAlone ==
  [][(ClickStep /\ Clicked # 0 /\ state.diffChanges[Clicked].resolved) =>
       /\ FlagsOf(state'.diffChanges) = FlagsOf(state.diffChanges)
       /\ Unresolved(state'.diffChanges) = Unresolved(state.diffChanges)
       /\ editor' = editor
       /\ state'.hasPendingDiff = state.hasPendingDiff
       /\ last'.fin = <<>>]_vars

\* reject was clicked on a unit that is accepted, while another unit is pending
C11_Witness ==
  /\ last.op = "rejectSingleChange"
  /\ state.hasPendingDiff
  /\ FindChange(state.diffChanges, last.arg[1]) # 0
  /\ state.diffChanges[FindChange(state.diffChanges, last.arg[1])].accepted
  /\ Unresolved(state.diffChanges) # {}

\* C12: acceptSingleChange or rejectSingleChange called with an id that no change unit
\* carries, also after the session was discarded, is a no-op: no unit is modified,
\* hasPendingDiff and the document are unchanged, and no finalization is triggered.
C12_UnknownIdIsNoOp ==
  [][(ClickStep /\ Clicked = 0) =>
       /\ state' = state
       /\ editor' = editor
       /\ disk' = disk
       /\ last'.fin = <<>>]_vars

\* a click carried an id of no unit while a session with a pending unit is on
\* display
C12_Witness ==
  /\ last.op \in {"acceptSingleChange", "rejectSingleChange"}
  /\ state.hasPendingDiff
  /\ Unresolved(state.diffChanges) # {}
  /\ FindChange(state.diffChanges, last.arg[1]) = 0

\* C13: a session is finalized by per-unit resolution exactly when the count of
\* unresolved change units reaches zero: a successful resolution lowers the count by
\* one, the resolution of the last pending unit finalizes in the same step, and no
\* per-unit resolution finalizes while a change unit is pending.
C13_FinalizedWhenCountReachesZero ==
  [][ClickStep =>
       IF Clicked # 0 /\ ~state.diffChanges[Clicked].resolved
       THEN IF Unresolved(state.diffChanges) = {Clicked}
            THEN /\ Discarded("finalize")'
                 /\ Unresolved(last'.fin[1].s.diffChanges) = {}
                 /\ ~state'.hasPendingDiff
            ELSE /\ last'.fin = <<>>
                 /\ state'.hasPendingDiff
                 /\ Unresolved(state'.diffChanges) =
                      Unresolved(state.diffChanges) \ {Clicked}
       ELSE last'.fin = <<>>]_vars

\* the second of two pending units was resolved and the session finalized
C13_Witness ==
  /\ Discarded("finalize")
  /\ last.op = "rejectSingleChange"
  /\ Cardinality(ChangeUnits(last.fin[1].s.diffChanges)) = 2
  /\ \E i \in ChangeUnits(last.fin[1].s.diffChanges) : last.fin[1].s.diffChanges[i].accepted

\* the units of the session after a click: those of the state, or those of the session
\* the click finalized
UnitsAfterClick ==
  IF last'.fin # <<>> THEN last'.fin[1].s.diffChanges ELSE state'.diffChanges

\* C33: a per-unit resolution changes only the resolved / accepted / rejected fields of
\* the targeted unit: the ids, kinds, parts and order of all units and the flags of
\* every other unit are the same after the resolution, whichever unit is resolved
\* first.
C33_ResolutionTouchesOneUnit ==
  [][ClickStep =>
       /\ Len(UnitsAfterClick) = Len(state.diffChanges)
       /\ \A k \in 1..Len(state.diffChanges) :
            /\ UnitsAfterClick[k].id = state.diffChanges[k].id
            /\ UnitsAfterClick[k].type = state.diffChanges[k].type
            /\ UnitsAfterClick[k].parts = state.diffChanges[k].parts
            /\ k # Clicked => Flags(UnitsAfterClick[k]) = Flags(state.diffChanges[k])]_vars

\* the unit with id 1 was resolved while the unit with id 0 before it is pending
C33_Witness ==
  /\ last.op \in {"acceptSingleChange", "rejectSingleChange"}
  /\ last.arg = <<1>>
  /\ state.hasPendingDiff
  /\ FindChange(state.diffChanges, 1) # 0
  /\ state.diffChanges[FindChange(state.diffChanges, 1)].resolved
  /\ FindChange(state.diffChanges, 0) \in Unresolved(state.diffChanges)

\* a click on the accept or on the reject button of a unit
Resolve(w, changeId, decision) ==
  IF decision = "accepted" THEN acceptSingleChange(w, changeId)
  ELSE rejectSingleChange(w, changeId)

\* the user opens a new thread and comes back to the thread of w
RoundTrip(w) == switchToThread(createNewThread(w), w.state.activeThreadId[1])

\* the document after the units first and second are resolved in that order, with a
\* thread round trip between the two clicks when away is TRUE
TextAfter(w, first, second, decision, away) ==
  LET w1 == Resolve(w, first, decision[first])
      w2 == IF away THEN RoundTrip(w1) ELSE w1
  IN  getMarkdownContent(Resolve(w2, second, decision[second]).editor)

\* C35: the finalized text of a session depends only on the decision taken for each
\* unit, not on the order of the resolutions: for a session on display with the units
\* 0 and 1 pending, resolving 0 then 1 and resolving 1 then 0 with the same decisions
\* (and the same thread round trip, or none, between the two clicks) finalize to the
\* same text.
C35_OrderDoesNotMatter ==
  (/\ state.hasPendingDiff
   /\ ActiveIdx(state) # 0
   /\ Unresolved(state.diffChanges) = ChangeUnits(state.diffChanges)
   /\ {state.diffChanges[i].id : i \in ChangeUnits(state.diffChanges)} = {<<0>>, <<1>>}
   /\ HasButton(0) /\ HasButton(1))
    => \A decision \in [{0, 1} -> {"accepted", "rejected"}] : \A away \in BOOLEAN :
         TextAfter(Here, 0, 1, decision, away) = TextAfter(Here, 1, 0, decision, away)

\* the threads the user can switch to that store no diff
OtherPlainThreads ==
  {t \in 1..Len(state.threads) :
     /\ <<state.threads[t].id>> # state.activeThreadId
     /\ state.threads[t].diffState = <<>>}

\* C37: thread switches never revert applied changes: after a session has been
\* finalized by per-unit resolutions, switching to a thread that has no stored diff
\* leaves the editor showing the finalized text.
C37_SwitchKeepsFinalizedText ==
  Discarded("finalize") =>
    \A t \in OtherPlainThreads :
      getMarkdownContent(switchToThread(Here, state.threads[t].id).editor)
        = getMarkdownContent(editor)

\* C38: in every state reached after a complete user operation, hasPendingDiff is
\* true exactly when diffChanges holds at least one Change unit that is not resolved;
\* in particular restoring a thread never gives hasPendingDiff true with no unresolved
\* unit.
C38_PendingIffUnresolved ==
  state.hasPendingDiff <=> Unresolved(state.diffChanges) # {}

\* the fields the renderer's state shares with the state object of lib/diffState.js
SharedFields == DOMAIN createInitialDiffState

Shared(st) == [f \in SharedFields |-> st[f]]

\* C39: the renderer's clearDiff and the library's clearDiffState are equivalent on
\* the shared diff state: run from the same state they leave the same values in
\* hasPendingDiff, originalContent, originalHtml, originalFullContent,
\* proposedContent, proposedHtml, isSelectionEdit, diffChanges, selectedText,
\* selectionStart and selectionEnd.
C39_ClearDiffAgrees ==
  Shared(clearDiff(Here).state)
    = clearDiffState([NoHeap EXCEPT !.objects = <<Shared(state)>>], 1).objects[1]

\* the place of the session's original text in the full document, -1 if it has none
FoundAt(s) == indexOf(s.originalFullContent, s.originalContent)

\* C18: for a selection edit whose originalContent occurs in originalFullContent,
\* acceptChanges produces the full document with the located occurrence replaced by
\* the new text, every character before and after the occurrence unchanged.
C18_SelectionAcceptSplices ==
  (Discarded("accept") /\ last.fin[1].s.isSelectionEdit /\ FoundAt(last.fin[1].s) # -1) =>
    LET s == last.fin[1].s
        at == FoundAt(s)
        doc == getMarkdownContent(editor)
        rest == Len(s.originalFullContent) - at - Len(s.originalContent)
    IN  /\ Len(doc) = at + Len(s.proposedContent) + rest
        /\ SubSeq(doc, 1, at) = SubSeq(s.originalFullContent, 1, at)
        /\ SubSeq(doc, at + 1, at + Len(s.proposedContent)) = s.proposedContent
        /\ SubSeq(doc, Len(doc) - rest + 1, Len(doc)) =
             SubSeq(s.originalFullContent, Len(s.originalFullContent) - rest + 1,
                    Len(s.originalFullContent))

\* the edit of a word with text before it and after it was accepted as a whole
C18_Witness ==
  /\ last.op = "acceptChanges"
  /\ Discarded("accept")
  /\ last.fin[1].s.isSelectionEdit
  /\ FoundAt(last.fin[1].s) > 0
  /\ FoundAt(last.fin[1].s) + Len(last.fin[1].s.originalContent)
       < Len(last.fin[1].s.originalFullContent)

\* C19: for a selection edit whose originalContent does not occur in
\* originalFullContent, acceptChanges does not fail: the new span text alone becomes
\* the document, and the session is discarded as in the matching case.
C19_SelectionAcceptFallsBack ==
  (Discarded("accept") /\ last.fin[1].s.isSelectionEdit /\ FoundAt(last.fin[1].s) = -1) =>
    /\ getMarkdownContent(editor) = last.fin[1].s.proposedContent
    /\ state.cleanDocumentMarkdown = last.fin[1].s.proposedContent
    /\ ~state.hasPendingDiff
    /\ state.diffChanges = <<>>
    /\ ActiveIdx(state) # 0
    /\ state.threads[ActiveIdx(state)].diffState = <<>>

\* the edit of a selection that the document of the request did not hold was accepted
C19_Witness ==
  /\ last.op = "acceptChanges"
  /\ Discarded("accept")
  /\ last.fin[1].s.isSelectionEdit
  /\ FoundAt(last.fin[1].s) = -1
  /\ last.fin[1].s.proposedContent # <<>>

\* C20: handleThreadSubmit first discards every unresolved diff session on the
\* document: from the moment the request is sent until its response is shown no
\* unresolved session exists, neither in the active state nor stored on a thread.
C20_NoSessionWhileRequestInFlight ==
  requests # <<>> =>
    \A s \in SessionsIn(state) : Unresolved(s.diffChanges) = {}

\* the editor holds a diff-delete or diff-insert span
HasOverlay == \E k \in 1..Len(editor) : editor[k].cls \in {"diff-delete", "diff-insert"}

\* C22: the editor content is either plain or a session overlay: after every complete
\* operation the editor holds diff-delete / diff-insert spans only if hasPendingDiff
\* is true; after finalize, acceptChanges, rejectChanges, createNewThread,
\* newDocument, a file open or a switch to a thread without a diff it is plain.
C22_OverlayOnlyWhilePending == HasOverlay => state.hasPendingDiff

(***************************************************************************)
(* Properties of groupDiffsIntoChanges, checked under SpecGroup.           *)
(***************************************************************************)
\* the units of type change, in order
ChangesOf(units) == SelectSeq(units, LAMBDA u : u.type = "change")

\* C14: for any list of diff parts, the non-null ids of the units of
\* groupDiffsIntoChanges, read in order, are 0, 1, ..., n-1 with n the number of
\* change units, and every equal unit has id null.
C14_IdsAreDense ==
  pc = "partsGrouped" =>
    /\ \A k \in 1..Len(ChangesOf(changes)) : ChangesOf(changes)[k].id = <<k - 1>>
    /\ \A k \in 1..Len(changes) :
         /\ changes[k].type \in {"equal", "change"}
         /\ changes[k].type = "equal" => changes[k].id = <<>>

\* a list with a replacement pair, an equal part and a further change was grouped
C14_Witness ==
  /\ pc = "partsGrouped"
  /\ Len(ChangesOf(changes)) >= 2
  /\ \E k \in 1..Len(changes) : Len(changes[k].parts) = 2
  /\ \E k \in 1..Len(changes) : changes[k].type = "equal"

\* the parts of the units, in order
RECURSIVE UnitParts(_)
UnitParts(units) ==
  IF units = <<>> THEN <<>> ELSE Head(units).parts \o UnitParts(Tail(units))

\* index of the unit that holds the k-th part
UnitOfPart(units, k) ==
  CHOOSE u \in 1..Len(units) :
    /\ Len(UnitParts(SubSeq(units, 1, u))) >= k
    /\ Len(UnitParts(SubSeq(units, 1, u - 1))) < k

\* C15: every change unit has a non-empty parts list with at most one Delete and at
\* most one Insert part, the Delete first when both are there; a Delete immediately
\* followed by an Insert lands in one unit, and an Insert followed by a Delete gives
\* two separate units.
C15_UnitShape ==
  pc = "partsGrouped" =>
    /\ UnitParts(changes) = merged
    /\ \A k \in 1..Len(changes) :
         IF changes[k].type = "equal"
         THEN Len(changes[k].parts) = 1 /\ changes[k].parts[1].type = EQUAL
         ELSE \/ /\ Len(changes[k].parts) = 1
                 /\ changes[k].parts[1].type \in {DELETE, INSERT}
              \/ /\ Len(changes[k].parts) = 2
                 /\ changes[k].parts[1].type = DELETE
                 /\ changes[k].parts[2].type = INSERT
    /\ \A i \in 1..(Len(merged) - 1) :
         /\ (merged[i].type = DELETE /\ merged[i + 1].type = INSERT) =>
              UnitOfPart(changes, i) = UnitOfPart(changes, i + 1)
         /\ (merged[i].type = INSERT /\ merged[i + 1].type = DELETE) =>
              UnitOfPart(changes, i) # UnitOfPart(changes, i + 1)

\* a list with an Insert followed by a Delete followed by an Insert was grouped
C15_Witness ==
  /\ pc = "partsGrouped"
  /\ \E i \in 1..(Len(merged) - 2) :
       /\ merged[i].type = INSERT
       /\ merged[i + 1].type = DELETE
       /\ merged[i + 2].type = INSERT
       /\ UnitOfPart(changes, i + 1) = UnitOfPart(changes, i + 2)

\* C34: groupDiffsIntoChanges has a value for every list of parts whose kinds are
\* delete, equal or insert, and consumes each part exactly once: the parts of the
\* returned units, flattened in order, are the input list, and each Equal unit holds
\* exactly one part.
C34_PartsConsumedOnce ==
  pc = "partsGrouped" =>
    /\ Concat([u \in 1..Len(changes) |-> changes[u].parts]) = merged
    /\ \A u \in 1..Len(changes) : changes[u].type = "equal" => Len(changes[u].parts) = 1

\* a list with an equality, then a deletion followed by an insertion, was grouped
C34_Witness ==
  /\ pc = "partsGrouped"
  /\ Len(merged) = 4
  /\ merged[1].type = EQUAL /\ merged[2].type = DELETE /\ merged[3].type = INSERT
  /\ Len(changes) = 3

(***************************************************************************)
(* Properties of the diff markers, checked under SpecMarkers.              *)
(***************************************************************************)
\* the number of places where sub stands in s
Count(s, sub) ==
  Cardinality({i \in 0..(Len(s) - Len(sub)) : SubSeq(s, i + 1, i + Len(sub)) = sub})

\* no part of the units has the sentinel byte in its text
NoSentinel(units) ==
  \A u \in 1..Len(units) : \A p \in 1..Len(units[u].parts) :
    Count(units[u].parts[p].text, <<NUL>>) = 0

\* the span of one part of a change unit
PartSpan(changeId, part) ==
  IF part.type = DELETE
  THEN SpanOpen(diff_delete) \o Decimal(changeId) \o TagEnd \o part.text \o SpanClose
  ELSE SpanOpen(diff_insert) \o Decimal(changeId) \o TagEnd \o part.text \o SpanClose

RECURSIVE ExpectedSpans(_)
\* Equal text as it is, and one span per Delete and Insert part, in order
ExpectedSpans(units) ==
  IF units = <<>> THEN <<>>
  ELSE LET u == Head(units) IN
       (IF u.type = "equal" THEN u.parts[1].text
        ELSE Concat([p \in 1..Len(u.parts) |-> PartSpan(u.id[1], u.parts[p])]))
       \o ExpectedSpans(Tail(units))

\* C23: for units whose text has no sentinel byte,
\* placeholdersToSpans(markersToPlaceholders(buildDiffMarkdown(units))) is the Equal
\* text unchanged with, in order, one span per Delete part and per Insert part that
\* carries the unit's id and has exactly the part's text as content.
C23_MarkerRoundTrip ==
  (pc = "spans" /\ markup.from = "units" /\ NoSentinel(changes))
    => markup.spans = ExpectedSpans(changes)

\* the text of a unit in the marked text: an Equal unit's text, and for a change unit
\* its Delete part between DEL sentinels, then its Insert part between INS sentinels
UnitMarkdown(unit) ==
  LET id == Decimal(unit.id[1])
      Of(type) == SelectSeq(unit.parts, LAMBDA part : part.type = type)
  IN  IF unit.type = "equal" THEN unit.parts[1].text
      ELSE (IF Of(DELETE) = <<>> THEN <<>>
            ELSE <<NUL, "D", "E", "L">> \o id \o <<NUL>> \o Of(DELETE)[1].text
                 \o <<NUL, "/", "D", "E", "L", NUL>>)
           \o (IF Of(INSERT) = <<>> THEN <<>>
               ELSE <<NUL, "I", "N", "S">> \o id \o <<NUL>> \o Of(INSERT)[1].text
                    \o <<NUL, "/", "I", "N", "S", NUL>>)

\* C32: buildDiffMarkdown emits the units in order: an Equal unit's text verbatim, and
\* for a change unit the Delete part in a DEL sentinel pair and the Insert part in an
\* INS sentinel pair, both with the unit's id in decimal, Delete before Insert; the
\* empty list gives the empty string.
C32_MarkdownOfUnits ==
  (pc = "markdown" /\ markup.from = "units") =>
    /\ markup.diffMarkdown = Concat([u \in 1..Len(changes) |-> UnitMarkdown(changes[u])])
    /\ changes = <<>> => markup.diffMarkdown = <<>>

\* buildDiffMarkdown ran on eleven units, the last with id 10
C32_Witness ==
  /\ pc = "markdown"
  /\ markup.from = "units"
  /\ Len(changes) = 11
  /\ changes[11].id = <<10>>
  /\ Count(markup.diffMarkdown, <<NUL, "I", "N", "S", "1", "0", NUL>>) = 1

\* the number of paragraph blocks of a text: one more than its blank-line separators
Paragraphs(text) == 1 + Count(text, <<"\n", "\n">>)

\* C24: when the region of a Delete or Insert part holds blank-line-separated
\* paragraphs, markersToPlaceholders yields one placeholder element per paragraph
\* block, each carrying the id of the region.
C24_PlaceholderPerParagraph ==
  (pc = "placeholders" /\ markup.from = "units" /\ NoSentinel(changes))
    => \A u \in 1..Len(changes) : \A p \in 1..Len(changes[u].parts) :
         LET part == changes[u].parts[p]
             tag == IF part.type = DELETE THEN diffdelete ELSE diffinsert
         IN  (changes[u].type # "equal" /\ Paragraphs(part.text) >= 2)
               => Count(markup.placeholders,
                        PlaceholderOpen(tag) \o Decimal(changes[u].id[1]) \o TagEnd)
                  = Paragraphs(part.text)

\* an opening with an id stands somewhere in s and a closing occurs after it
HasPair(s, open, mid, close) ==
  \E p \in 0..Len(s) :
    /\ OpensAt(s, p, open, mid)
    /\ indexOf(AfterOpening(s, p, open, mid), close) # -1

\* every opening and closing of the input is in the output, literally or converted
Conserved(in, out, open, close, open2, close2) ==
  /\ Count(in, open) = Count(out, open) + Count(out, open2)
  /\ Count(in, close) = Count(out, close) + Count(out, close2)

OpenDel0 == MarkerOpen(DEL) \o Decimal(0) \o MarkerMid
OpenIns1 == MarkerOpen(INS) \o Decimal(1) \o MarkerMid
OpenDelete0 == PlaceholderOpen(diffdelete) \o Decimal(0) \o TagEnd
OpenInsert1 == PlaceholderOpen(diffinsert) \o Decimal(1) \o TagEnd

\* C25: markersToPlaceholders and placeholdersToSpans have a value for every input
\* (each is evaluated on every drawn string); an opening sentinel or placeholder tag with no closing one after it, and a closing
\* one with no opening before it, stay in the output as the same literal text; a text
\* without markers and HTML without placeholders come back unchanged.
C25_UnmatchedStaysLiteral ==
  /\ (pc = "placeholders" /\ markup.from = "text") =>
       LET in == markup.diffMarkdown
           out == markup.placeholders
       IN  /\ (/\ ~HasPair(in, MarkerOpen(DEL), MarkerMid, MarkerClose(DEL))
               /\ ~HasPair(in, MarkerOpen(INS), MarkerMid, MarkerClose(INS)))
                => out = in
           /\ Conserved(in, out, OpenDel0, MarkerClose(DEL),
                        OpenDelete0, PlaceholderClose(diffdelete))
           /\ Conserved(in, out, OpenIns1, MarkerClose(INS),
                        OpenInsert1, PlaceholderClose(diffinsert))
  /\ (pc = "spans" /\ markup.from = "html") =>
       LET in == markup.placeholders
           out == markup.spans
       IN  /\ (/\ ~HasPair(in, PlaceholderOpen(diffdelete), TagEnd, PlaceholderClose(diffdelete))
               /\ ~HasPair(in, PlaceholderOpen(diffinsert), TagEnd, PlaceholderClose(diffinsert)))
                => out = in
           /\ Count(in, OpenDelete0)
                = Count(out, OpenDelete0) + Count(out, SpanOpen(diff_delete) \o Decimal(0) \o TagEnd)
           /\ Count(in, OpenInsert1)
                = Count(out, OpenInsert1) + Count(out, SpanOpen(diff_insert) \o Decimal(1) \o TagEnd)
           /\ Count(in, PlaceholderClose(diffdelete)) + Count(in, PlaceholderClose(diffinsert))
                = Count(out, PlaceholderClose(diffdelete))
                  + Count(out, PlaceholderClose(diffinsert)) + Count(out, SpanClose)

\* markersToPlaceholders converted a pair and left an opening sentinel without a
\* closing one as it was
C25_Witness ==
  /\ pc = "placeholders"
  /\ markup.from = "text"
  /\ Count(markup.placeholders, OpenDelete0) >= 1
  /\ Count(markup.placeholders, OpenDel0) >= 1
  /\ Count(markup.placeholders, MarkerClose(DEL)) = 0

(***************************************************************************)
(* Properties of the diff state object, checked under SpecState.           *)
(***************************************************************************)
\* C26: clearDiffState(state), from any state, leaves the same object with every field
\* equal to createInitialDiffState() (hasPendingDiff false, the content and HTML strings
\* empty, isSelectionEdit false, diffChanges empty, selectedText '', selectionStart 0,
\* selectionEnd 0) and returns that same object.
C26_ClearedIsInitial ==
  pc = "cleared" =>
    /\ Len(heap.objects) = 1
    /\ heap.objects[1] = createInitialDiffState
    /\ heap.returned = <<1>>

\* clearDiffState was called on an object whose selection had been set to 'b', 0..2
C26_Witness ==
  /\ pc = "cleared"
  /\ heap.args = <<<<"b">>, 0, 2>>
  /\ heap.returned = <<1>>
  /\ heap.objects[1].selectedText = <<>>
  /\ heap.objects[1].selectionEnd = 0

\* C27: updateSelectionState(state, text, start, end) sets selectedText, selectionStart
\* and selectionEnd to the given values and leaves every other field of the state
\* (hasPendingDiff, the contents, isSelectionEdit, diffChanges) unchanged.
C27_UpdateSelectionFrame ==
  [][pc' = "updated" =>
       /\ heap'.objects[1].selectedText = heap'.args[1]
       /\ heap'.objects[1].selectionStart = heap'.args[2]
       /\ heap'.objects[1].selectionEnd = heap'.args[3]
       /\ heap'.objects[1] =
            [heap.objects[1] EXCEPT !.selectedText = heap'.args[1],
                                    !.selectionStart = heap'.args[2],
                                    !.selectionEnd = heap'.args[3]]]_vars

\* updateSelectionState set a selection on an object with a pending selection edit
C27_Witness ==
  /\ pc = "updated"
  /\ heap.args = <<<<"b">>, 0, 2>>
  /\ heap.objects[1].selectedText = <<"b">>
  /\ heap.objects[1].selectionEnd = 2
  /\ heap.objects[1].isSelectionEdit
  /\ heap.objects[1].hasPendingDiff

(***************************************************************************)
(* Properties of parseClaudeResponse, checked under SpecParse.             *)
(***************************************************************************)
\* some stretch of the raw response is the text of a JSON object
HasEmbeddedObject(raw) ==
  \E i \in 1..Len(raw) : \E j \in i..Len(raw) : JSONparse(SubSeq(raw, i, j)) = "object"

C21_LastRequestWins ==
  (/\ used.submits = 2
   /\ requests = <<>>
   /\ last.op = "response"
   /\ state.hasPendingDiff) => state.sid = 2

\* the response step of the request with the given submission number
AnswersRequest(i) == last'.op = "response" /\ last'.arg = <<requests[i].seq>>

\* the thread that issued request i is still a thread of the open document
IssuerIsOpen(i) ==
  \E t \in 1..Len(state.threads) : <<state.threads[t].id>> = requests[i].thread

\* C36: if the user switches or creates a thread while a request is outstanding, the
\* session built from the response is recorded on the thread that issued the request
\* and never stored as the diffState of another thread.
C36_SessionGoesToItsThread ==
  [][\A i \in 1..Len(requests) :
       (AnswersRequest(i) /\ IssuerIsOpen(i)) =>
         \A t \in 1..Len(state'.threads) :
           (/\ state'.threads[t].diffState # <<>>
            /\ state'.threads[t].diffState[1].sid = requests[i].seq)
             => <<state'.threads[t].id>> = requests[i].thread]_vars

(***************************************************************************)
(* Properties of read-context-folder, checked under SpecFolder.            *)
(***************************************************************************)
\* the name ends, in either case, with one of the three extensions after a stem
HasContextExtension(name) ==
  \E ext \in allowedExtensions :
    /\ Len(name) > Len(ext)
    /\ toLowerCase(SubSeq(name, Len(name) - Len(ext) + 1, Len(name))) = ext

\* a regular file with one of the three extensions and at most 50KB
Eligible(entry) ==
  entry.isFile /\ HasContextExtension(entry.name) /\ entry.size <= 50 * 1024

\* the entries whose names the result returns
Returned(r) ==
  {k \in 1..Len(folder.entries) :
     \E i \in 1..Len(r.files) : r.files[i].name = folder.entries[k].name}

RECURSIVE SizeSum(_)
SizeSum(K) ==
  IF K = {} THEN 0
  ELSE LET k == CHOOSE x \in K : TRUE IN folder.entries[k].size + SizeSum(K \ {k})

\* C40: for any folder listing, the handler returns only regular files with extension
\* .txt, .md or .markdown of at most 50KB each, their sizes sum to the reported
\* totalSize, which never exceeds 200KB, and truncated is true exactly when an
\* otherwise eligible file was left out because adding it would exceed the 200KB
\* total.
C40_ContextFolderResult ==
  (pc = "read" /\ folder.result[1].success) =>
    LET r == folder.result[1]
    IN  /\ \A i \in 1..Len(r.files) :
             \E k \in 1..Len(folder.entries) :
               r.files[i].name = folder.entries[k].name /\ Eligible(folder.entries[k])
        /\ Cardinality(Returned(r)) = Len(r.files)
        /\ SizeSum(Returned(r)) = r.totalSize
        /\ r.totalSize <= 200 * 1024
        /\ r.truncated <=>
             \E k \in 1..Len(folder.entries) :
               /\ Eligible(folder.entries[k])
               /\ k \notin Returned(r)
               /\ r.totalSize + folder.entries[k].size > 200 * 1024

\* four files of 50KB are returned, which fill the 200KB, and a one-byte file after
\* them does not fit
C40_Witness ==
  /\ pc = "read"
  /\ Len(folder.entries) = MaxEntries
  /\ folder.result[1].success
  /\ Len(folder.result[1].files) = 4
  /\ folder.result[1].totalSize = 200 * 1024
  /\ folder.result[1].truncated

====
